---- MODULE Spec2Model ----
(***************************************************************************)
(* Source annotation renderer: the unit metadata table and line map of a  *)
(* Snippet (src/src/snippet/mod.rs), the placement of annotations and     *)
(* the renderer (src/src/annots.rs), and the output sink (src/src/lib.rs);*)
(* the set of ranges of src/src/range_set.rs.                             *)
(*                                                                         *)
(* Positions and indices are 0-based as in the source; a sequence s of    *)
(* the source is a TLA+ sequence read with At0(s, i) == s[i + 1].         *)
(***************************************************************************)
EXTENDS Integers, Sequences, FiniteSets, TLC

VARIABLES
    builder,            \* SnippetBuilder under construction
    built,              \* TRUE once SnippetBuilder::finish has run
    conv,               \* last convert_span call: arguments and results
    snippet,            \* the Snippet the annotations are attached to
    first_line_no,      \* Annotations.first_line_no
    src_annots,         \* Annotations.annots: the spans and labels as given
    max_pos,            \* Annotations.max_pos
    annots,             \* PreProcAnnots.annots
    lines,              \* PreProcAnnots.lines: line index -> LineData
    num_ml_slots,       \* PreProcAnnots.num_ml_slots
    pc,                 \* "idle", "lines", "done", "failed", "panic", "flood"
    rparams,            \* arguments of the render call
    prev_line_i,        \* render: the previous annotated line (-1: None)
    ml_slots,           \* render: the gutter table, lane -> owner or None_
    out,                \* the sink: fragments accepted so far
    n_calls,            \* the sink: number of write calls received
    result,             \* render: "none", "ok", "err", or the panic message
    returned,           \* the render calls that returned: arguments and writes
    range_set           \* a RangeSet and the values inserted into it

vars == <<builder, built, conv, snippet, first_line_no, src_annots, max_pos,
          annots, lines, num_ml_slots, pc, rparams, prev_line_i, ml_slots,
          out, n_calls, result, returned,
                   range_set>>

-----------------------------------------------------------------------------
(* Small helpers *)

Max(a, b) == IF a >= b THEN a ELSE b
Min(a, b) == IF a <= b THEN a ELSE b
At0(s, i) == s[i + 1]

\* usize::MAX, the "no lane / no owner" sentinel (the largest 32-bit integer
\* stands for 2^64 - 1; it is only ever compared, never computed with).
USIZE_MAX == 2147483647

-----------------------------------------------------------------------------
(* UnitMeta: a u16 holding width (bits 0-6), alt (bit 7), utf8_len (bits 8-14) *)
(* and the continuation ("extra") flag (bit 15).                              *)

EXTRA_MASK == 32768
MAX_WIDTH == 127
MAX_UTF8_LEN == 127
ALT_MASK == 128

UnitMeta_extra == EXTRA_MASK

\* width | (utf8_len << 8) | alt: the fields do not overlap (both asserted <= 0x7F)
UnitMeta_new(width, utf8_len, alt) ==
    width + (utf8_len * 256) + (IF alt THEN ALT_MASK ELSE 0)

is_extra(meta) == (meta \div EXTRA_MASK) % 2 = 1
meta_width(meta) == (meta % 256) % (MAX_WIDTH + 1)
meta_utf8_len(meta) == ((meta \div 256) % 256) % (MAX_UTF8_LEN + 1)
is_alt(meta) == (meta \div ALT_MASK) % 2 = 1

-----------------------------------------------------------------------------
(* SnippetBuilder.  The rendered text is kept by its byte length only.        *)

\* log is the history of the calls made on the builder (kept for the properties
\* only): <<method, orig_len, display width, length in bytes>>
SnippetBuilder_new ==
    [utf8_text |-> 0, src_line_map |-> <<>>, utf8_line_map |-> <<>>,
     metas |-> <<>>, large_widths |-> <<>>, large_utf8_lens |-> <<>>,
     log |-> <<>>]

\* the side tables used above the sentinel only
push_meta_above(b, orig_len, width, utf8_len, alt) ==
    IF orig_len = 0 THEN b
    ELSE
        LET large_w == width > MAX_WIDTH
            large_l == utf8_len > MAX_UTF8_LEN
            meta == UnitMeta_new(IF large_w THEN MAX_WIDTH ELSE width,
                                 IF large_l THEN MAX_UTF8_LEN ELSE utf8_len, alt)
        IN [b EXCEPT
              !.large_widths =
                  IF large_w THEN Append(@, <<Len(b.metas), width>>) ELSE @,
              !.large_utf8_lens =
                  IF large_l THEN Append(@, <<Len(b.metas), utf8_len>>) ELSE @,
              !.metas = Append(@, meta) \o [i \in 1..(orig_len - 1) |-> UnitMeta_extra]]

push_meta(b, orig_len, width, utf8_len, alt) ==
    IF orig_len = 0 THEN b
    ELSE
        LET large_w == width >= MAX_WIDTH
            large_l == utf8_len >= MAX_UTF8_LEN
            meta == UnitMeta_new(IF large_w THEN MAX_WIDTH ELSE width,
                                 IF large_l THEN MAX_UTF8_LEN ELSE utf8_len, alt)
        IN [b EXCEPT
              !.large_widths =
                  IF large_w THEN Append(@, <<Len(b.metas), width>>) ELSE @,
              !.large_utf8_lens =
                  IF large_l THEN Append(@, <<Len(b.metas), utf8_len>>) ELSE @,
              !.metas = Append(@, meta) \o [i \in 1..(orig_len - 1) |-> UnitMeta_extra]]

\* the next line taken to start one unit after the line break began
next_line_one_unit(b, orig_len) ==
    LET b1 == push_meta(b, orig_len, 1, 0, FALSE)
    IN [b1 EXCEPT !.src_line_map = Append(@, Len(b.metas) + 1),
                  !.utf8_line_map = Append(@, b1.utf8_text)]

next_line(b, orig_len) ==
    LET b1 == push_meta(b, orig_len, 1, 0, FALSE)
    IN [b1 EXCEPT !.src_line_map = Append(@, Len(b1.metas)),
                  !.utf8_line_map = Append(@, b1.utf8_text)]

push_empty(b, orig_len) == push_meta(b, orig_len, 0, 0, FALSE)

\* text is given by its display width and its length in bytes
push_str(b, text_width, text_len, orig_len, alt) ==
    push_meta([b EXCEPT !.utf8_text = @ + text_len], orig_len, text_width, text_len, alt)

finish(b) == b

-----------------------------------------------------------------------------
(* RangeSet: a sorted list of inclusive ranges <<start, end>> *)

RangeSet_new == <<>>

\* binary_search_by with the comparator of search: Ok(index of the range that
\* holds value) or Err(number of ranges that end before value)
search(ranges, value) ==
    IF \E k \in 1..Len(ranges) : ranges[k][1] <= value /\ value <= ranges[k][2]
    THEN [ok |-> TRUE,
          i |-> (CHOOSE k \in 1..Len(ranges) :
                    ranges[k][1] <= value /\ value <= ranges[k][2]) - 1]
    ELSE [ok |-> FALSE, i |-> Cardinality({k \in 1..Len(ranges) : ranges[k][2] < value})]

\* (a..=b).count()
range_count(a, b) == IF a <= b THEN b - a + 1 ELSE 0

\* Vec::drain(from..to); it panics when from > to or to > len
drain_ok(ranges, from, to) == from <= to /\ to <= Len(ranges)
drain(ranges, from, to) == SubSeq(ranges, 1, from) \o SubSeq(ranges, to + 1, Len(ranges))

\* ranges[i] = r
set_range(ranges, i, r) == [ranges EXCEPT ![i + 1] = r]

fuse_prev(ranges, i1, new_range) ==
    IF i1 # 0
    THEN LET prev_end == At0(ranges, i1 - 1)[2]
         IN prev_end >= new_range[1] \/ range_count(prev_end, new_range[1]) <= 2
    ELSE FALSE

\* the next range joined only when it overlaps the new one
fuse_next_overlap(ranges, i2, new_range) ==
    IF i2 # Len(ranges)
    THEN new_range[2] >= At0(ranges, i2)[1]
    ELSE FALSE

fuse_next(ranges, i2, new_range) ==
    IF i2 # Len(ranges)
    THEN LET next_start == At0(ranges, i2)[1]
         IN new_range[2] >= next_start \/ range_count(new_range[2], next_start) <= 2
    ELSE FALSE

\* one arm of insert: ranges[at] = <<start, end>>, then drain(from..to);
\* the result is [ranges, panic]
set_and_drain(ranges, at, start, end, from, to) ==
    IF at >= Len(ranges) \/ ~drain_ok(ranges, from, to)
    THEN [ranges |-> ranges, panic |-> TRUE]
    ELSE [ranges |-> drain(set_range(ranges, at, <<start, end>>), from, to),
          panic |-> FALSE]

\* RangeSet::insert: the list after the call, and whether the call panicked
insert(ranges, new_range) ==
    LET s1 == search(ranges, new_range[1])
        s2 == search(ranges, new_range[2])
        i1 == s1.i
        i2 == s2.i
    IN IF ~(new_range[1] <= new_range[2]) THEN [ranges |-> ranges, panic |-> TRUE]
       ELSE IF s1.ok /\ s2.ok
       THEN set_and_drain(ranges, i2, At0(ranges, i1)[1], At0(ranges, i2)[2], i1, i2)
       ELSE IF s1.ok /\ ~s2.ok
       THEN IF fuse_next(ranges, i2, new_range)
            THEN set_and_drain(ranges, i2, At0(ranges, i1)[1], At0(ranges, i2)[2], i1, i2)
            ELSE set_and_drain(ranges, i1, At0(ranges, i1)[1], new_range[2], i1 + 1, i2)
       ELSE IF ~s1.ok /\ s2.ok
       THEN IF fuse_prev(ranges, i1, new_range)
            THEN set_and_drain(ranges, i2, At0(ranges, i1 - 1)[1], At0(ranges, i2)[2],
                               i1 - 1, i2)
            ELSE set_and_drain(ranges, i2, new_range[1], At0(ranges, i2)[2], i1, i2)
       ELSE LET prev == fuse_prev(ranges, i1, new_range)
                next == fuse_next(ranges, i2, new_range)
            IN IF ~prev /\ ~next
               THEN IF ~drain_ok(ranges, i1, i2) THEN [ranges |-> ranges, panic |-> TRUE]
                    ELSE LET drained == drain(ranges, i1, i2)
                         IN [ranges |-> SubSeq(drained, 1, i1) \o <<new_range>>
                                        \o SubSeq(drained, i1 + 1, Len(drained)),
                             panic |-> FALSE]
               ELSE IF prev /\ ~next
               THEN set_and_drain(ranges, i1 - 1, At0(ranges, i1 - 1)[1], new_range[2],
                                  i1, i2)
               ELSE IF ~prev /\ next
               THEN set_and_drain(ranges, i2, new_range[1], At0(ranges, i2)[2], i1, i2)
               ELSE set_and_drain(ranges, i1 - 1, At0(ranges, i1 - 1)[1],
                                  At0(ranges, i2)[2], i1, i2 + 1)

-----------------------------------------------------------------------------
(* Snippet: line map and unit metadata look-ups *)

\* slice::binary_search on a sorted sequence: Ok(index) or Err(insertion point)
binary_search(seq, x) ==
    IF \E k \in 1..Len(seq) : seq[k] = x
    THEN [ok |-> TRUE, i |-> (CHOOSE k \in 1..Len(seq) : seq[k] = x) - 1]
    ELSE [ok |-> FALSE, i |-> Cardinality({k \in 1..Len(seq) : seq[k] < x})]

src_pos_to_line(sn, pos) ==
    LET r == binary_search(sn.src_line_map, pos)
    IN IF r.ok THEN r.i + 1 ELSE r.i

src_line_range(sn, line_i) ==
    [start |-> IF line_i = 0 THEN 0 ELSE At0(sn.src_line_map, line_i - 1),
     end |-> IF line_i = Len(sn.src_line_map) THEN Len(sn.metas)
             ELSE At0(sn.src_line_map, line_i)]

utf8_line_range(sn, line_i) ==
    [start |-> IF line_i = 0 THEN 0 ELSE At0(sn.utf8_line_map, line_i - 1),
     end |-> IF line_i = Len(sn.utf8_line_map) THEN sn.utf8_text
             ELSE At0(sn.utf8_line_map, line_i)]

\* the side table entry of unit i; -1 stands for the panic of unwrap()
large_lookup(table, i) ==
    IF \E k \in 1..Len(table) : table[k][1] = i
    THEN table[CHOOSE k \in 1..Len(table) : table[k][1] = i][2]
    ELSE -1

unit_utf8_len(sn, i) ==
    LET len_i == meta_utf8_len(At0(sn.metas, i))
    IN IF len_i = MAX_UTF8_LEN THEN large_lookup(sn.large_utf8_lens, i) ELSE len_i

unit_width(sn, i) ==
    LET width_i == meta_width(At0(sn.metas, i))
    IN IF width_i = MAX_WIDTH THEN large_lookup(sn.large_widths, i) ELSE width_i

RECURSIVE gather_utf8_len(_, _, _)
gather_utf8_len(sn, from, to) ==
    IF from >= to THEN 0
    ELSE gather_utf8_len(sn, from, to - 1) + unit_utf8_len(sn, to - 1)

RECURSIVE gather_width(_, _, _)
gather_width(sn, from, to) ==
    IF from >= to THEN 0
    ELSE gather_width(sn, from, to - 1) + unit_width(sn, to - 1)

\* (utf8_len, alt) of the units from..to-1, one pair per unit
utf8_lens_and_alts(sn, from, to) ==
    [k \in 1..(to - from) |->
        <<unit_utf8_len(sn, from + k - 1), is_alt(At0(sn.metas, from + k - 1))>>]

\* while metas.get(start).is_some_and(is_extra) { start -= 1 }
RECURSIVE widen_start(_, _)
widen_start(sn, start) ==
    IF start >= 0 /\ start < Len(sn.metas) /\ is_extra(At0(sn.metas, start))
    THEN widen_start(sn, start - 1)
    ELSE start

\* the end boundary left where it is
widen_end_none(sn, end) == end

\* while metas.get(end).is_some_and(is_extra) { end += 1 }
RECURSIVE widen_end(_, _)
widen_end(sn, end) ==
    IF end < Len(sn.metas) /\ is_extra(At0(sn.metas, end))
    THEN widen_end(sn, end + 1)
    ELSE end

convert_span(sn, start0, end0) ==
    LET start == Min(widen_start(sn, start0), Len(sn.metas))
        end == Min(widen_end(sn, Max(end0, start0)), Len(sn.metas))
        start_line == src_pos_to_line(sn, start)
        start_line_start == src_line_range(sn, start_line).start
        start_col == gather_width(sn, start_line_start, start)
        start_utf8 == gather_utf8_len(sn, start_line_start, start)
        end_line == binary_search(sn.src_line_map, end).i
        end_line_start == src_line_range(sn, end_line).start
    IN IF end = start
       THEN [start_line |-> start_line, start_col |-> start_col,
             start_utf8 |-> start_utf8, end_line |-> start_line,
             end_col |-> start_col, end_utf8 |-> start_utf8]
       ELSE [start_line |-> start_line, start_col |-> start_col,
             start_utf8 |-> start_utf8, end_line |-> end_line,
             end_col |-> gather_width(sn, end_line_start, end),
             end_utf8 |-> gather_utf8_len(sn, end_line_start, end)]

-----------------------------------------------------------------------------
(* The snippet interface used by the annotation layer: LineMap::pos_to_line_col, *)
(* SnippetLine::calc_start_col / calc_end_col / gather_styles.  They resolve a   *)
(* position as convert_span does: binary search on the line map, widening past   *)
(* continuation records, clamping to the table length, sums of width and length. *)

pos_to_line_col(sn, pos) ==
    LET line_i == src_pos_to_line(sn, pos)
    IN <<line_i, pos - src_line_range(sn, line_i).start>>

\* (column, rendered-byte offset) of the start boundary col_src of line line_i
calc_start_col(sn, line_i, col_src) ==
    LET line_start == src_line_range(sn, line_i).start
        pos == Min(widen_start(sn, line_start + col_src), Len(sn.metas))
    IN <<gather_width(sn, line_start, pos), gather_utf8_len(sn, line_start, pos)>>

\* (column, rendered-byte offset) of the end boundary col_src of line line_i
calc_end_col(sn, line_i, col_src) ==
    LET line_start == src_line_range(sn, line_i).start
        pos == Min(widen_end(sn, line_start + col_src), Len(sn.metas))
    IN <<gather_width(sn, line_start, pos), gather_utf8_len(sn, line_start, pos)>>

RECURSIVE expand_styles(_, _)
expand_styles(lens_alts, n) ==
    IF n = 0 THEN <<>>
    ELSE expand_styles(lens_alts, n - 1)
            \o [k \in 1..lens_alts[n][1] |-> <<USIZE_MAX, lens_alts[n][2]>>]

\* one (owner, alt) pair per rendered byte of the line, no owner yet
gather_styles(sn, line_i) ==
    LET r == src_line_range(sn, line_i)
        lens_alts == utf8_lens_and_alts(sn, r.start, r.end)
    IN expand_styles(lens_alts, Len(lens_alts))

\* length in bytes of the rendered text of a line
line_text_len(sn, line_i) ==
    utf8_line_range(sn, line_i).end - utf8_line_range(sn, line_i).start

num_lines(sn) == Len(sn.src_line_map) + 1

-----------------------------------------------------------------------------
(* PreProcAnnots::add_annotation *)

Range(s) == {s[k] : k \in 1..Len(s)}

\* Vec::resize
resize(s, n, v) ==
    IF n <= Len(s) THEN SubSeq(s, 1, n)
    ELSE s \o [k \in 1..(n - Len(s)) |-> v]

create_line_data(sn, line_i) ==
    [sl_annots |-> <<>>, ml_annots_starts |-> <<>>, ml_annots_ends |-> <<>>,
     sl_carets |-> <<>>, styles |-> gather_styles(sn, line_i)]

\* the entry replaced by new line data also when the line has one
entry_or_insert_always(lns, sn, line_i) ==
    [l \in (DOMAIN lns) \cup {line_i} |->
        IF l = line_i THEN create_line_data(sn, line_i) ELSE lns[l]]

\* lines.entry(line_i).or_insert_with(create_line_data)
entry_or_insert(lns, sn, line_i) ==
    IF line_i \in DOMAIN lns THEN lns
    ELSE [l \in (DOMAIN lns) \cup {line_i} |->
             IF l = line_i THEN create_line_data(sn, line_i) ELSE lns[l]]

\* the test with touching intervals counted as overlapping
sl_intersects_touching(start_col, end_col, other) ==
    Max(start_col, other.start_col) <= Min(end_col, other.end_col)

\* the overlap test of two single-line annotations of one line
sl_intersects(start_col, end_col, other) ==
    Max(start_col, other.start_col) < Min(end_col, other.end_col)

\* no widening of an empty column interval
at_least_one_caret_none(start_col, end_col) == end_col

\* "Render at least one caret"
at_least_one_caret(start_col, end_col) ==
    IF end_col = start_col THEN end_col + 1 ELSE end_col

\* last writer wins: every entry in [from, to) gets annot_i
own_carets_last(carets, from, to, annot_i) ==
    [k \in 1..Len(carets) |-> IF from < k /\ k <= to THEN annot_i ELSE carets[k]]

\* first writer wins: an entry without owner in [from, to) gets annot_i
own_carets(carets, from, to, annot_i) ==
    [k \in 1..Len(carets) |->
        IF from < k /\ k <= to /\ carets[k] = USIZE_MAX THEN annot_i ELSE carets[k]]

\* "Apply caret styles"
apply_carets(sl_carets, start_col, end_col, annot_i) ==
    IF Len(sl_carets) <= start_col
    THEN resize(resize(sl_carets, start_col, USIZE_MAX), end_col, annot_i)
    ELSE IF Len(sl_carets) <= end_col
    THEN resize(own_carets(sl_carets, start_col, Len(sl_carets), annot_i),
                end_col, annot_i)
    ELSE own_carets(sl_carets, start_col, end_col, annot_i)

\* last writer wins: every byte of styles[from..to] gets annot_i
apply_styles_last(styles, from, to, annot_i) ==
    [k \in 1..Len(styles) |->
        IF from < k /\ k <= to THEN <<annot_i, styles[k][2]>> ELSE styles[k]]

\* "Apply line text styles" on styles[from..to]: first writer wins
apply_styles(styles, from, to, annot_i) ==
    [k \in 1..Len(styles) |->
        IF from < k /\ k <= to /\ styles[k][1] = USIZE_MAX
        THEN <<annot_i, styles[k][2]>> ELSE styles[k]]

\* whether the slice styles[from..to] exists (it panics otherwise)
slice_ok(styles, from, to) == 0 <= from /\ from <= to /\ to <= Len(styles)

\* the start columns compared alone
key_less_col(col_a, i_a, col_b, i_b) == col_a < col_b

key_less(col_a, i_a, col_b, i_b) == col_a < col_b \/ (col_a = col_b /\ i_a < i_b)

\* binary_search_by_key gives Ok: dest has the key (start_col, annot_i), and
\* unwrap_err panics
key_found(anns, start_col, annot_i, dest) ==
    \E k \in 1..Len(dest) :
        At0(anns, dest[k]).start_col = start_col /\ dest[k] = annot_i

\* binary search of (start_col, annot_i) in dest, sorted by (start_col, index);
\* the key is new, so the search gives the insertion point
insert_annot_sorted(anns, start_col, annot_i, dest) ==
    LET insert_i == Cardinality({k \in 1..Len(dest) :
                        key_less(At0(anns, dest[k]).start_col, dest[k],
                                 start_col, annot_i)})
    IN SubSeq(dest, 1, insert_i) \o <<annot_i>> \o SubSeq(dest, insert_i + 1, Len(dest))

is_multi_line(annot) == annot.start_line # annot.end_line

\* the test without the column-0 cases
line_overlaps_strict(start_line, start_col, end_line, other) ==
    Max(start_line, other.start_line) < Min(end_line, other.end_line)

\* the vertical overlap test of the lane assignment
line_overlaps(start_line, start_col, end_line, other) ==
    \/ (start_col = 0 /\ other.end_line = start_line)
    \/ (other.start_col = 0 /\ other.start_line = end_line)
    \/ Max(start_line, other.start_line) < Min(end_line, other.end_line)

\* no lane recorded as used
mark_used_none(used_slots, slot) == used_slots

mark_used(used_slots, slot) ==
    IF slot >= Len(used_slots)
    THEN Append(resize(used_slots, slot, FALSE), TRUE)
    ELSE [used_slots EXCEPT ![slot + 1] = TRUE]

\* the used_slots vector after the first n annotations were scanned
RECURSIVE scan_used_slots(_, _, _, _, _)
scan_used_slots(anns, n, start_line, start_col, end_line) ==
    IF n = 0 THEN <<>>
    ELSE LET used == scan_used_slots(anns, n - 1, start_line, start_col, end_line)
             other == anns[n]
         IN IF is_multi_line(other)
               /\ line_overlaps(start_line, start_col, end_line, other)
            THEN mark_used(used, other.ml_slot)
            ELSE used

\* a lane past the ones in use, free or not
first_free_slot_fresh(used_slots) == Len(used_slots)

\* used_slots.iter().position(|used| !used).unwrap_or(used_slots.len())
first_free_slot(used_slots) ==
    IF \E k \in 1..Len(used_slots) : ~used_slots[k]
    THEN (CHOOSE k \in 1..Len(used_slots) :
             ~used_slots[k] /\ \A j \in 1..(k - 1) : used_slots[j]) - 1
    ELSE Len(used_slots)

\* the single-line branch; st is [annots, lines, num_ml_slots, panic, why]
add_single_line(st, sn, line_i, start, end_col_src, label) ==
    LET line_data == st.lines[line_i]
        annot_i == Len(st.annots)
        start_col == start[1]
        end == calc_end_col(sn, line_i, end_col_src)
        end_col == at_least_one_caret(start_col, end[1])
        hits == {k \in 1..Len(st.annots) :
                    (k - 1) \in Range(line_data.sl_annots)
                    /\ sl_intersects(start_col, end_col, st.annots[k])}
        marked == [k \in 1..Len(st.annots) |->
                     IF k \in hits THEN [st.annots[k] EXCEPT !.sl_overlaps = TRUE]
                     ELSE st.annots[k]]
        new_line == [line_data EXCEPT
                        !.sl_carets = apply_carets(@, start_col, end_col, annot_i),
                        !.styles = apply_styles(@, start[2], end[2], annot_i),
                        !.sl_annots = insert_annot_sorted(st.annots, start_col,
                                                          annot_i, @)]
        annot == [start_line |-> line_i, start_col |-> start_col,
                  end_line |-> line_i, end_col |-> end_col, label |-> label,
                  sl_overlaps |-> hits # {}, ml_slot |-> USIZE_MAX]
    IN IF ~slice_ok(line_data.styles, start[2], end[2])
       THEN [st EXCEPT !.panic = TRUE, !.why = "slice index out of range"]
       ELSE IF key_found(st.annots, start_col, annot_i, line_data.sl_annots)
       THEN [st EXCEPT !.panic = TRUE, !.why = "unwrap_err on Ok"]
       ELSE [st EXCEPT !.annots = Append(marked, annot),
                       !.lines = [@ EXCEPT ![line_i] = new_line]]

\* the multi-line branch with the lane count taken from the last lane given
add_multi_line_last_lane(st, sn, start_line, start, end_line, end_col_src, label) ==
    LET annot_i == Len(st.annots)
        start_col == start[1]
        start_data == st.lines[start_line]
        lines1 == [st.lines EXCEPT ![start_line] =
                     [@ EXCEPT
                        !.styles = apply_styles(@, start[2], Len(@), annot_i),
                        !.ml_annots_starts =
                            insert_annot_sorted(st.annots, start_col, annot_i, @)]]
        lines2 == entry_or_insert(lines1, sn, end_line)
        end == calc_end_col(sn, end_line, end_col_src)
        end_data == lines2[end_line]
        lines3 == [lines2 EXCEPT ![end_line] =
                     [@ EXCEPT
                        !.styles = apply_styles(@, 0, end[2], annot_i),
                        !.ml_annots_ends =
                            insert_annot_sorted(st.annots, start_col, annot_i, @)]]
        ml_slot == first_free_slot(scan_used_slots(st.annots, Len(st.annots),
                                                   start_line, start_col, end_line))
        annot == [start_line |-> start_line, start_col |-> start_col,
                  end_line |-> end_line, end_col |-> end[1], label |-> label,
                  sl_overlaps |-> FALSE, ml_slot |-> ml_slot]
    IN IF ~slice_ok(start_data.styles, start[2], Len(start_data.styles))
          \/ ~slice_ok(end_data.styles, 0, end[2])
       THEN [st EXCEPT !.panic = TRUE, !.why = "slice index out of range"]
       ELSE IF key_found(st.annots, start_col, annot_i, start_data.ml_annots_starts)
               \/ key_found(st.annots, start_col, annot_i, end_data.ml_annots_ends)
       THEN [st EXCEPT !.panic = TRUE, !.why = "unwrap_err on Ok"]
       ELSE [st EXCEPT !.annots = Append(@, annot),
                       !.lines = lines3,
                       !.num_ml_slots = ml_slot + 1]

\* the multi-line branch
add_multi_line(st, sn, start_line, start, end_line, end_col_src, label) ==
    LET annot_i == Len(st.annots)
        start_col == start[1]
        start_data == st.lines[start_line]
        lines1 == [st.lines EXCEPT ![start_line] =
                     [@ EXCEPT
                        !.styles = apply_styles(@, start[2], Len(@), annot_i),
                        !.ml_annots_starts =
                            insert_annot_sorted(st.annots, start_col, annot_i, @)]]
        lines2 == entry_or_insert(lines1, sn, end_line)
        end == calc_end_col(sn, end_line, end_col_src)
        end_data == lines2[end_line]
        lines3 == [lines2 EXCEPT ![end_line] =
                     [@ EXCEPT
                        !.styles = apply_styles(@, 0, end[2], annot_i),
                        !.ml_annots_ends =
                            insert_annot_sorted(st.annots, start_col, annot_i, @)]]
        ml_slot == first_free_slot(scan_used_slots(st.annots, Len(st.annots),
                                                   start_line, start_col, end_line))
        annot == [start_line |-> start_line, start_col |-> start_col,
                  end_line |-> end_line, end_col |-> end[1], label |-> label,
                  sl_overlaps |-> FALSE, ml_slot |-> ml_slot]
    IN IF ~slice_ok(start_data.styles, start[2], Len(start_data.styles))
          \/ ~slice_ok(end_data.styles, 0, end[2])
       THEN [st EXCEPT !.panic = TRUE, !.why = "slice index out of range"]
       ELSE IF key_found(st.annots, start_col, annot_i, start_data.ml_annots_starts)
               \/ key_found(st.annots, start_col, annot_i, end_data.ml_annots_ends)
       THEN [st EXCEPT !.panic = TRUE, !.why = "unwrap_err on Ok"]
       ELSE [st EXCEPT !.annots = Append(@, annot),
                       !.lines = lines3,
                       !.num_ml_slots = Max(@, ml_slot + 1)]

\* the zero-length branch taken for start = end only
preproc_add_annotation_unordered(st, sn, src_span, label) ==
    LET start_pos == pos_to_line_col(sn, src_span[1])
        start_line == start_pos[1]
        start_col_src == start_pos[2]
        st1 == [st EXCEPT !.lines = entry_or_insert(@, sn, start_line)]
        start == calc_start_col(sn, start_line, start_col_src)
        end_pos == pos_to_line_col(sn, src_span[2] - 1)
        end_line == IF src_span[2] # src_span[1] THEN end_pos[1] ELSE start_line
        end_col_src == IF src_span[2] # src_span[1] THEN end_pos[2] + 1
                       ELSE start_col_src
    IN IF start_line = end_line
       THEN add_single_line(st1, sn, start_line, start, end_col_src, label)
       ELSE add_multi_line(st1, sn, start_line, start, end_line, end_col_src, label)

preproc_add_annotation(st, sn, src_span, label) ==
    LET start_pos == pos_to_line_col(sn, src_span[1])
        start_line == start_pos[1]
        start_col_src == start_pos[2]
        st1 == [st EXCEPT !.lines = entry_or_insert(@, sn, start_line)]
        start == calc_start_col(sn, start_line, start_col_src)
        end_pos == pos_to_line_col(sn, src_span[2] - 1)
        end_line == IF src_span[2] > src_span[1] THEN end_pos[1] ELSE start_line
        end_col_src == IF src_span[2] > src_span[1] THEN end_pos[2] + 1
                       ELSE start_col_src
    IN IF start_line = end_line
       THEN add_single_line(st1, sn, start_line, start, end_col_src, label)
       ELSE add_multi_line(st1, sn, start_line, start, end_line, end_col_src, label)

-----------------------------------------------------------------------------
(* Annotations: add_annotation and max_line_no_width *)

\* ilog10 + 1 of max(n, 1): the number of decimal digits
RECURSIVE num_digits(_)
num_digits(n) == IF n < 10 THEN 1 ELSE 1 + num_digits(n \div 10)

line_no_width(line_no) == num_digits(Max(line_no, 1))

\* the width of the first line number
max_line_no_width_first == line_no_width(first_line_no)

max_line_no_width ==
    LET max_line_i == pos_to_line_col(snippet, max_pos)[1]
    IN line_no_width(max_line_i + first_line_no)

-----------------------------------------------------------------------------
(* PreProcAnnots::render: the fragments written to the sink.                  *)
(* A write is [s, a, b, c, mk, mi, row, line]: the glyph s with its payload   *)
(* (a, b, c), the metadata (mk, mi) = (kind, annotation), and, for the        *)
(* properties, the kind of row and the source line it belongs to.  A write    *)
(* "PANIC" marks a failed assertion or an arithmetic overflow at that point.  *)

\* Option::None for a gutter slot and for prev_line_i
None_ == -1

W(s, a, b, c, mk, mi) ==
    [s |-> s, a |-> a, b |-> b, c |-> c, mk |-> mk, mi |-> mi, row |-> "", line |-> None_]

Space == W("space", 0, 0, 0, "spaces", None_)
Newline == W("newline", 0, 0, 0, "spaces", None_)
Panic(why) == W("PANIC", 0, 0, 0, why, None_)

Rep(n, w) == [k \in 1..n |-> w]

Tag(ev, row, line_i) == [k \in 1..Len(ev) |-> [ev[k] EXCEPT !.row = row, !.line = line_i]]

\* the line number written without padding
put_margin_unpadded(margin, width, first_no, line_i, is_dot) ==
    IF ~margin THEN <<>>
    ELSE (IF line_i # None_
          THEN LET line_no == line_i + first_no
                   pad == width - line_no_width(line_no)
               IN (IF pad < 0 THEN <<Panic("subtract with overflow")>>
                   ELSE <<>>)
                  \o <<W("line_no", line_no, 0, 0, "margin", None_), Space>>
          ELSE Rep(width + 1, Space))
         \o <<W(IF is_dot THEN "dot_char" ELSE "line_char", 0, 0, 0, "margin", None_),
              Space>>

\* line_i = None_ stands for Option::None
put_margin(margin, width, first_no, line_i, is_dot) ==
    IF ~margin THEN <<>>
    ELSE (IF line_i # None_
          THEN LET line_no == line_i + first_no
                   pad == width - line_no_width(line_no)
               IN (IF pad < 0 THEN <<Panic("subtract with overflow")>>
                   ELSE Rep(pad, Space))
                  \o <<W("line_no", line_no, 0, 0, "margin", None_), Space>>
          ELSE Rep(width + 1, Space))
         \o <<W(IF is_dot THEN "dot_char" ELSE "line_char", 0, 0, 0, "margin", None_),
              Space>>

text_meta(owner, alt) ==
    IF owner = USIZE_MAX
    THEN (IF alt THEN <<"text_alt", None_>> ELSE <<"text_normal", None_>>)
    ELSE (IF alt THEN <<"annot_text_alt", owner>> ELSE <<"annot_text_normal", owner>>)

\* the runs of equal (owner, alt) of styles[chr_i + 1 ..], one put_str each
RECURSIVE text_runs(_, _, _)
text_runs(line_i, styles, chr_i) ==
    IF chr_i >= Len(styles) THEN <<>>
    ELSE LET cur == styles[chr_i + 1]
             diff == {k \in (chr_i + 1)..Len(styles) : styles[k] # cur}
             len == IF diff = {} THEN Len(styles) - chr_i
                    ELSE (CHOOSE k \in diff : \A j \in diff : k <= j) - 1 - chr_i
             m == text_meta(cur[1], cur[2])
         IN <<W("text", line_i, chr_i, chr_i + len, m[1], m[2])>>
            \o text_runs(line_i, styles, chr_i + len)

put_line_text(sn, line_i, styles) ==
    IF Len(styles) # line_text_len(sn, line_i)
    THEN <<Panic("assert_eq styles.len() text.len()")>>
    ELSE text_runs(line_i, styles, 0) \o <<Newline>>

put_fill_line_text(sn, line_i) ==
    <<W("text", line_i, 0, line_text_len(sn, line_i), "text_normal", None_), Newline>>

\* the gutter cells written from slot 0 up to the last slot
put_slots_simple_ascending(slots) ==
    [k \in 1..Len(slots) |->
        LET i == k - 1
        IN IF At0(slots, i) # None_
           THEN W("vertical", i, 0, 0, "line", At0(slots, i))
           ELSE Space]
    \o (IF Len(slots) # 0 THEN <<Space>> ELSE <<>>)

\* the gutter cells are written from the last slot down to slot 0: the k-th
\* write is the cell of slot Len(slots) - k
put_slots_simple(slots) ==
    [k \in 1..Len(slots) |->
        LET i == Len(slots) - k
        IN IF At0(slots, i) # None_
           THEN W("vertical", i, 0, 0, "line", At0(slots, i))
           ELSE Space]
    \o (IF Len(slots) # 0 THEN <<Space>> ELSE <<>>)

put_slots_with_short_start(slots, is_slot_start) ==
    [k \in 1..Len(slots) |->
        LET i == Len(slots) - k
        IN IF At0(slots, i) # None_
           THEN W(IF At0(is_slot_start, i) THEN "top_vertical" ELSE "vertical",
                  i, 0, 0, "line", At0(slots, i))
           ELSE Space]
    \o (IF Len(slots) # 0 THEN <<Space>> ELSE <<>>)

put_slots_with_start(slots, start_slot, annot_i) ==
    [k \in 1..Len(slots) |->
        LET i == Len(slots) - k
        IN IF At0(slots, i) # None_
           THEN W("vertical", i, 0, 0, "line", At0(slots, i))
           ELSE IF i = start_slot THEN W("top_corner", i, 0, 0, "line", annot_i)
           ELSE IF i < start_slot THEN W("horizontal", i, 0, 0, "line", annot_i)
           ELSE Space]
    \o <<W("horizontal", None_, 0, 0, "line", annot_i)>>

put_slots_with_end(slots, end_slot, annot_i) ==
    [k \in 1..Len(slots) |->
        LET i == Len(slots) - k
        IN IF At0(slots, i) # None_
           THEN W("vertical", i, 0, 0, "line", At0(slots, i))
           ELSE IF i = end_slot THEN W("bottom_corner", i, 0, 0, "line", annot_i)
           ELSE IF i < end_slot THEN W("horizontal", i, 0, 0, "line", annot_i)
           ELSE Space]
    \o <<W("horizontal", None_, 0, 0, "line", annot_i)>>

\* the verticals under the first n annotations of sl: [ev, col_cursor]
RECURSIVE put_sl_verticals(_, _, _)
put_sl_verticals(anns, sl, n) ==
    IF n = 0 THEN [ev |-> <<>>, col_cursor |-> 0]
    ELSE LET r == put_sl_verticals(anns, sl, n - 1)
             start_col == At0(anns, sl[n]).start_col
         IN IF start_col < r.col_cursor THEN r
            ELSE [ev |-> r.ev
                         \o (IF start_col - r.col_cursor >= 1 THEN <<Space>> ELSE <<>>)
                         \o <<W("vertical", start_col, 0, 0, "line", sl[n])>>,
                  col_cursor |-> start_col + 1]

put_label(anns, annot_i) ==
    LET label == At0(anns, annot_i).label
    IN [k \in 1..Len(label) |-> W("label", annot_i, k - 1, label[k], "label", annot_i)]

label_not_empty(label) == \E k \in 1..Len(label) : label[k] # 0

\* cx is the context of one render call:
\* [sn, anns, lns, first_no, margin, width, fill_after, fill_before]
margin_row(cx, line_i, is_dot) ==
    put_margin(cx.margin, cx.width, cx.first_no, line_i, is_dot)

\* the unannotated lines written with an empty gutter
RECURSIVE fill_lines_bare(_, _, _, _)
fill_lines_bare(cx, slots, from, to) ==
    IF from > to THEN <<>>
    ELSE Tag(margin_row(cx, from, FALSE) \o put_slots_simple([k \in 1..Len(slots) |-> None_])
                \o put_fill_line_text(cx.sn, from), "filler", from)
         \o fill_lines_bare(cx, slots, from + 1, to)

\* the unannotated lines from..to, each with margin and gutter
RECURSIVE fill_lines(_, _, _, _)
fill_lines(cx, slots, from, to) ==
    IF from > to THEN <<>>
    ELSE Tag(margin_row(cx, from, FALSE) \o put_slots_simple(slots)
                \o put_fill_line_text(cx.sn, from), "filler", from)
         \o fill_lines(cx, slots, from + 1, to)

\* the elision taken also when the gap is exactly the two limits
gap_rows_eager(cx, slots, prev, line_i) ==
    IF prev = None_ THEN <<>>
    ELSE IF (line_i - prev - 1) >= (cx.fill_after + cx.fill_before)
    THEN fill_lines(cx, slots, prev + 1, prev + cx.fill_after)
         \o Tag(margin_row(cx, None_, TRUE) \o put_slots_simple(slots) \o <<Newline>>,
                "dots", None_)
         \o fill_lines(cx, slots, line_i - cx.fill_before, line_i - 1)
    ELSE fill_lines(cx, slots, prev + 1, line_i - 1)

\* "Handle lines between annotated lines"
gap_rows(cx, slots, prev, line_i) ==
    IF prev = None_ THEN <<>>
    ELSE IF (line_i - prev - 1) > (cx.fill_after + cx.fill_before)
    THEN fill_lines(cx, slots, prev + 1, prev + cx.fill_after)
         \o Tag(margin_row(cx, None_, TRUE) \o put_slots_simple(slots) \o <<Newline>>,
                "dots", None_)
         \o fill_lines(cx, slots, line_i - cx.fill_before, line_i - 1)
    ELSE fill_lines(cx, slots, prev + 1, line_i - 1)

\* "Handle multi line annotations that start at the beginning of the line":
\* the first n entries of starts; r is [slots, is_start, ev]
RECURSIVE open_col0(_, _, _, _)
open_col0(cx, starts, n, slots) ==
    IF n = 0 THEN [slots |-> slots, is_start |-> [k \in 1..Len(slots) |-> FALSE],
                   ev |-> <<>>]
    ELSE LET r == open_col0(cx, starts, n - 1, slots)
             annot == At0(cx.anns, starts[n])
         IN IF annot.start_col # 0 THEN r
            ELSE [slots |-> [r.slots EXCEPT ![annot.ml_slot + 1] = starts[n]],
                  is_start |-> [r.is_start EXCEPT ![annot.ml_slot + 1] = TRUE],
                  ev |-> r.ev
                         \o (IF At0(r.slots, annot.ml_slot) # None_
                             THEN <<Panic("assert slot is none (column 0 start)")>>
                             ELSE <<>>)
                         \o (IF At0(r.is_start, annot.ml_slot)
                             THEN <<Panic("assert not is_slot_start")>> ELSE <<>>)]

caret_cells(sl_carets) ==
    [k \in 1..Len(sl_carets) |->
        IF sl_carets[k] = USIZE_MAX THEN Space
        ELSE W("caret", sl_carets[k], 0, 0, "line", sl_carets[k])]

last_has_vertical(cx, line_data) ==
    /\ line_data.sl_annots # <<>>
    /\ At0(cx.anns, line_data.sl_annots[Len(line_data.sl_annots)]).sl_overlaps

\* the caret row with the inline label of the last annotation
caret_row(cx, line_i, line_data, slots) ==
    IF line_data.sl_annots = <<>> THEN <<>>
    ELSE LET last_i == line_data.sl_annots[Len(line_data.sl_annots)]
         IN Tag(margin_row(cx, None_, FALSE) \o put_slots_simple(slots)
                   \o caret_cells(line_data.sl_carets)
                   \o (IF ~last_has_vertical(cx, line_data)
                          /\ label_not_empty(At0(cx.anns, last_i).label)
                       THEN <<Space>> \o put_label(cx.anns, last_i)
                       ELSE <<>>)
                   \o <<Newline>>, "carets", line_i)

\* every annotation of the line, also the last one when its label is inline
with_verticals_all(cx, line_data) == line_data.sl_annots

with_verticals(cx, line_data) ==
    IF last_has_vertical(cx, line_data) \/ line_data.sl_annots = <<>>
    THEN line_data.sl_annots
    ELSE SubSeq(line_data.sl_annots, 1, Len(line_data.sl_annots) - 1)

connector_row(cx, line_i, wv, slots) ==
    IF wv = <<>> THEN <<>>
    ELSE Tag(margin_row(cx, None_, FALSE) \o put_slots_simple(slots)
                \o put_sl_verticals(cx.anns, wv, Len(wv)).ev \o <<Newline>>,
             "connector", line_i)

\* the label rows of wv[n], wv[n-1], ..., wv[1]
RECURSIVE label_rows(_, _, _, _, _)
label_rows(cx, line_i, wv, n, slots) ==
    IF n = 0 THEN <<>>
    ELSE LET annot_i == wv[n]
             v == put_sl_verticals(cx.anns, wv, n - 1)
             start_col == At0(cx.anns, annot_i).start_col
         IN Tag(margin_row(cx, None_, FALSE) \o put_slots_simple(slots) \o v.ev
                   \o (IF v.col_cursor < start_col
                       THEN Rep(start_col - v.col_cursor, Space) ELSE <<>>)
                   \o put_label(cx.anns, annot_i) \o <<Newline>>, "label", line_i)
            \o label_rows(cx, line_i, wv, n - 1, slots)

\* "Handle multi line annotations that end at this line": the first n entries
\* of ends; r is [slots, ev]
RECURSIVE ml_end_rows(_, _, _, _, _)
ml_end_rows(cx, line_i, ends, n, slots) ==
    IF n = 0 THEN [slots |-> slots, ev |-> <<>>]
    ELSE LET r == ml_end_rows(cx, line_i, ends, n - 1, slots)
             annot_i == ends[n]
             annot == At0(cx.anns, annot_i)
             closed == [r.slots EXCEPT ![annot.ml_slot + 1] = None_]
         IN [slots |-> closed,
             ev |-> r.ev
                 \o (IF At0(r.slots, annot.ml_slot) = None_
                     THEN <<Panic("assert slot is some (end)")>> ELSE <<>>)
                 \o Tag(margin_row(cx, None_, FALSE)
                        \o put_slots_with_end(closed, annot.ml_slot, annot_i)
                        \o (IF annot.end_col # 0
                            THEN Rep(annot.end_col - 1,
                                     W("horizontal", None_, 0, 0, "line", annot_i))
                            ELSE <<>>)
                        \o <<W("caret", annot_i, 0, 0, "line", annot_i), Space>>
                        \o put_label(cx.anns, annot_i) \o <<Newline>>,
                        "ml_end", line_i)]

\* "Handle multi line annotations that start at this line (but not at the
\* beginning of the line)"
RECURSIVE ml_start_rows(_, _, _, _, _)
ml_start_rows(cx, line_i, starts, n, slots) ==
    IF n = 0 THEN [slots |-> slots, ev |-> <<>>]
    ELSE LET r == ml_start_rows(cx, line_i, starts, n - 1, slots)
             annot_i == starts[n]
             annot == At0(cx.anns, annot_i)
         IN IF annot.start_col = 0 THEN r
            ELSE [slots |-> [r.slots EXCEPT ![annot.ml_slot + 1] = annot_i],
                  ev |-> r.ev
                      \o Tag(margin_row(cx, None_, FALSE)
                             \o put_slots_with_start(r.slots, annot.ml_slot, annot_i),
                             "ml_start", line_i)
                      \o (IF At0(r.slots, annot.ml_slot) # None_
                          THEN <<Panic("assert slot is none (start)")>> ELSE <<>>)
                      \o Tag(Rep(annot.start_col,
                                 W("horizontal", None_, 0, 0, "line", annot_i))
                             \o <<W("caret", annot_i, 0, 0, "line", annot_i), Newline>>,
                             "ml_start", line_i)]

\* the start rows written before the end rows
render_line_starts_first(cx, prev, line_i, slots) ==
    LET line_data == cx.lns[line_i]
        gap == gap_rows(cx, slots, prev, line_i)
        opened == open_col0(cx, line_data.ml_annots_starts,
                            Len(line_data.ml_annots_starts), slots)
        text == Tag(margin_row(cx, line_i, FALSE)
                    \o put_slots_with_short_start(opened.slots, opened.is_start)
                    \o put_line_text(cx.sn, line_i, line_data.styles), "text", line_i)
        wv == with_verticals(cx, line_data)
        single == caret_row(cx, line_i, line_data, opened.slots)
                  \o connector_row(cx, line_i, wv, opened.slots)
                  \o label_rows(cx, line_i, wv, Len(wv), opened.slots)
        ended == ml_end_rows(cx, line_i, line_data.ml_annots_ends,
                             Len(line_data.ml_annots_ends), opened.slots)
        started == ml_start_rows(cx, line_i, line_data.ml_annots_starts,
                                 Len(line_data.ml_annots_starts), ended.slots)
    IN [ev |-> gap \o opened.ev \o text \o single \o started.ev \o ended.ev,
        slots |-> started.slots]

\* one iteration of the loop over the annotated lines: the writes it makes and
\* the gutter table it leaves
render_line(cx, prev, line_i, slots) ==
    LET line_data == cx.lns[line_i]
        gap == gap_rows(cx, slots, prev, line_i)
        opened == open_col0(cx, line_data.ml_annots_starts,
                            Len(line_data.ml_annots_starts), slots)
        text == Tag(margin_row(cx, line_i, FALSE)
                    \o put_slots_with_short_start(opened.slots, opened.is_start)
                    \o put_line_text(cx.sn, line_i, line_data.styles), "text", line_i)
        wv == with_verticals(cx, line_data)
        single == caret_row(cx, line_i, line_data, opened.slots)
                  \o connector_row(cx, line_i, wv, opened.slots)
                  \o label_rows(cx, line_i, wv, Len(wv), opened.slots)
        ended == ml_end_rows(cx, line_i, line_data.ml_annots_ends,
                             Len(line_data.ml_annots_ends), opened.slots)
        started == ml_start_rows(cx, line_i, line_data.ml_annots_starts,
                                 Len(line_data.ml_annots_starts), ended.slots)
    IN [ev |-> gap \o opened.ev \o text \o single \o ended.ev \o started.ev,
        slots |-> started.slots]

-----------------------------------------------------------------------------
(* Annotations::render and the sink *)

\* the PreProcAnnots left by the previous render call
PreProcAnnots_stale == [annots |-> annots, lines |-> lines,
                        num_ml_slots |-> num_ml_slots, panic |-> FALSE, why |-> ""]

PreProcAnnots_new == [annots |-> <<>>, lines |-> <<>>, num_ml_slots |-> 0,
                      panic |-> FALSE, why |-> ""]

\* pre_process: the first n annotations replayed in insertion order
RECURSIVE pre_process(_, _, _)
pre_process(sn, src, n) ==
    IF n = 0 THEN PreProcAnnots_new
    ELSE LET st == pre_process(sn, src, n - 1)
         IN IF st.panic THEN st
            ELSE preproc_add_annotation(st, sn, src[n].span, src[n].label)

\* the last key after prev
next_key_last(lns, prev) ==
    IF \E l \in DOMAIN lns : l > prev
    THEN CHOOSE l \in DOMAIN lns : \A m \in DOMAIN lns : m <= l
    ELSE None_

\* the key that follows prev in the BTreeMap lns (None_ when there is none)
next_key(lns, prev) ==
    IF \E l \in DOMAIN lns : l > prev
    THEN CHOOSE l \in DOMAIN lns : l > prev /\ \A m \in DOMAIN lns : m > prev => l <= m
    ELSE None_

\* the writes of the loop from the line after prev to the last annotated line
RECURSIVE render_rest(_, _, _)
render_rest(cx, prev, slots) ==
    LET line_i == next_key(cx.lns, prev)
        r == render_line(cx, prev, line_i, slots)
    IN IF line_i = None_ THEN <<>>
       ELSE r.ev \o render_rest(cx, line_i, r.slots)

\* index of the first "PANIC" entry of ev, Len(ev) + 1 when there is none
first_panic(ev) ==
    IF \E k \in 1..Len(ev) : ev[k].s = "PANIC"
    THEN CHOOSE k \in 1..Len(ev) :
            ev[k].s = "PANIC" /\ \A j \in 1..(k - 1) : ev[j].s # "PANIC"
    ELSE Len(ev) + 1

\* the writes before a stop: row tags dropped so that fragments compare
\* by what the sink received
fragment(w) == [s |-> w.s, a |-> w.a, b |-> w.b, c |-> w.c, mk |-> w.mk, mi |-> w.mi]
fragments(ev) == [k \in 1..Len(ev) |-> fragment(ev[k])]

\* the complete rendering with a sink that never fails, up to a panic
render_all(cx) ==
    LET ev == render_rest(cx, None_, cx.ml_slots0)
    IN SubSeq(ev, 1, first_panic(ev) - 1)

render_cx ==
    [sn |-> snippet, anns |-> annots, lns |-> lines, first_no |-> first_line_no,
     margin |-> rparams.margin, width |-> rparams.width,
     fill_after |-> rparams.fill_after, fill_before |-> rparams.fill_before,
     ml_slots0 |-> [k \in 1..num_ml_slots |-> None_]]

\* Annotations::add_annotation
add_annotation(span, label) ==
    /\ pc = "idle"
    /\ max_pos' = Max(max_pos, span[2])
    /\ src_annots' = Append(src_annots, [span |-> span, label |-> label])
    /\ UNCHANGED <<builder, built, conv, snippet, first_line_no, annots, lines,
                   num_ml_slots, pc, rparams, prev_line_i, ml_slots, out, n_calls,
                   result, returned,
                   range_set>>

\* Annotations::render up to the loop: pre_process, the early return on no
\* lines, the empty gutter table.  fail_at = k makes the k-th write call of
\* the sink return an error (0: the sink never fails).
render_begin(params) ==
    /\ pc = "idle"
    /\ rparams' = params
    /\ LET st == pre_process(snippet, src_annots, Len(src_annots))
       IN IF st.panic
          THEN /\ pc' = "panic" /\ result' = st.why
               /\ UNCHANGED <<annots, lines, num_ml_slots, ml_slots>>
          ELSE /\ annots' = st.annots
               /\ lines' = st.lines
               /\ num_ml_slots' = st.num_ml_slots
               /\ ml_slots' = [k \in 1..st.num_ml_slots |-> None_]
               /\ IF DOMAIN st.lines = {}
                  THEN pc' = "done" /\ result' = "ok"
                  ELSE pc' = "lines" /\ result' = "none"
    /\ prev_line_i' = None_
    /\ UNCHANGED <<builder, built, conv, snippet, first_line_no, src_annots,
                   max_pos, out, n_calls, returned,
                   range_set>>

\* the error noticed one write late
failing_write_late(ev, calls, fail_at) ==
    IF fail_at # 0 /\ 1 <= fail_at - calls /\ fail_at - calls <= first_panic(ev) - 1
    THEN Min(fail_at - calls + 1, Len(ev))
    ELSE 0

\* the index in ev of the write on which the sink returns its error, which `?`
\* propagates at once; 0 when none of the writes before the first panic fails.
\* calls is the number of write calls the sink has received before ev.
failing_write(ev, calls, fail_at) ==
    IF fail_at # 0 /\ 1 <= fail_at - calls /\ fail_at - calls <= first_panic(ev) - 1
    THEN fail_at - calls
    ELSE 0

\* `max_line_no_width - line_no_width` below zero panics when overflow checks
\* are on and wraps when they are off: the padding loop then writes spaces
\* without end, unless the sink fails on one of them
Builds == {"overflow-checks", "wrapping"}

\* one iteration of the loop over the annotated lines
render_step ==
    /\ pc = "lines"
    /\ \E build \in Builds :
        LET line_i == next_key(lines, prev_line_i)
            r == render_line(render_cx, prev_line_i, line_i, ml_slots)
            P == first_panic(r.ev)
            F == failing_write(r.ev, n_calls, rparams.fail_at)
            wraps == /\ P <= Len(r.ev) /\ r.ev[P].mk = "subtract with overflow"
                     /\ build = "wrapping"
        IN IF F # 0
           THEN /\ out' = out \o SubSeq(r.ev, 1, F - 1)
                /\ n_calls' = n_calls + F
                /\ pc' = "failed" /\ result' = "err"
                /\ UNCHANGED <<prev_line_i, ml_slots>>
           ELSE IF wraps /\ rparams.fail_at # 0
           THEN /\ out' = out \o SubSeq(r.ev, 1, P - 1)
                           \o Rep(rparams.fail_at - n_calls - P, Space)
                /\ n_calls' = rparams.fail_at
                /\ pc' = "failed" /\ result' = "err"
                /\ UNCHANGED <<prev_line_i, ml_slots>>
           ELSE IF P <= Len(r.ev)
           THEN /\ out' = out \o SubSeq(r.ev, 1, P - 1)
                /\ n_calls' = n_calls + P - 1
                /\ pc' = IF wraps THEN "flood" ELSE "panic"
                /\ result' = IF wraps THEN "none" ELSE r.ev[P].mk
                /\ UNCHANGED <<prev_line_i, ml_slots>>
           ELSE /\ out' = out \o r.ev
                /\ n_calls' = n_calls + Len(r.ev)
                /\ prev_line_i' = line_i
                /\ ml_slots' = r.slots
                /\ IF next_key(lines, line_i) = None_
                   THEN pc' = "done" /\ result' = "ok"
                   ELSE pc' = "lines" /\ result' = "none"
    /\ UNCHANGED <<builder, built, conv, snippet, first_line_no, src_annots,
                   max_pos, annots, lines, num_ml_slots, rparams, returned,
                   range_set>>

\* render returns Ok or Err to its caller, who may call it again with a new
\* sink.  annots, lines and num_ml_slots keep the PreProcAnnots of the call
\* that returned until the next call builds its own.
render_return ==
    /\ pc \in {"done", "failed"}
    /\ returned' = Append(returned, [params |-> rparams, src |-> src_annots,
                                     out |-> fragments(out), result |-> result])
    /\ pc' = "idle"
    /\ out' = <<>>
    /\ n_calls' = 0
    /\ result' = "none"
    /\ UNCHANGED <<builder, built, conv, snippet, first_line_no, src_annots,
                   max_pos, annots, lines, num_ml_slots, rparams, prev_line_i,
                   ml_slots, range_set>>

\* Annotations::new on snippet sn with first line number no
Annotations_new(sn, no) ==
    /\ snippet = sn
    /\ first_line_no = no
    /\ src_annots = <<>>
    /\ max_pos = 0
    /\ annots = <<>>
    /\ lines = <<>>
    /\ num_ml_slots = 0
    /\ pc = "idle"
    /\ rparams = [width |-> 0, fill_after |-> 0, fill_before |-> 0,
                  margin |-> TRUE, fail_at |-> 0]
    /\ prev_line_i = None_
    /\ ml_slots = <<>>
    /\ out = <<>>
    /\ n_calls = 0
    /\ result = "none"
    /\ returned = <<>>
    /\ range_set = [ranges |-> RangeSet_new, values |-> {}, panic |-> FALSE]

-----------------------------------------------------------------------------
(* Building a snippet and resolving spans on it *)

\* bound of the builder runs: number of calls before finish
MaxCalls == 3

\* the orig_len arguments the runs use
OrigLens == {0, 1, 2}

NoConv == [done |-> FALSE, s |-> 0, e |-> 0, s1 |-> 0, e1 |-> 0,
           span |-> convert_span(SnippetBuilder_new, 0, 0),
           again |-> convert_span(SnippetBuilder_new, 0, 0)]

\* the rendered fragments pushed by the runs: display width and byte length
\* (a narrow character, a wide character, a fragment that overflows the
\* compact fields, a fragment at the limit of the width field)
Texts == {<<1, 1, FALSE>>, <<2, 3, TRUE>>, <<130, 260, FALSE>>, <<127, 126, FALSE>>}

b_calls == Len(builder.log)

b_next_line(orig_len) ==
    /\ ~built /\ b_calls < MaxCalls
    /\ builder' = [next_line(builder, orig_len) EXCEPT
                      !.log = Append(@, <<"next_line", orig_len, 1, 0>>)]
    /\ UNCHANGED <<built, conv>>

b_push_empty(orig_len) ==
    /\ ~built /\ b_calls < MaxCalls
    /\ builder' = [push_empty(builder, orig_len) EXCEPT
                      !.log = Append(@, <<"push_empty", orig_len, 0, 0>>)]
    /\ UNCHANGED <<built, conv>>

b_push_str(text, orig_len) ==
    /\ ~built /\ b_calls < MaxCalls
    /\ builder' = [push_str(builder, text[1], text[2], orig_len, text[3]) EXCEPT
                      !.log = Append(@, <<"push_str", orig_len, text[1], text[2]>>)]
    /\ UNCHANGED <<built, conv>>

b_finish ==
    /\ ~built
    /\ built' = TRUE
    /\ builder' = finish(builder)
    /\ UNCHANGED conv

\* one call of convert_span on the finished snippet (a pure function: the
\* calls are independent, so one per run is recorded)
b_convert_span(s, e) ==
    /\ built /\ ~conv.done
    /\ LET n == Len(builder.metas)
           s1 == Min(widen_start(builder, s), n)
           e1 == Min(widen_end(builder, Max(e, s)), n)
       IN conv' = [done |-> TRUE, s |-> s, e |-> e, s1 |-> s1, e1 |-> e1,
                   span |-> convert_span(builder, s, e),
                   again |-> convert_span(builder, s1, e1)]
    /\ UNCHANGED <<builder, built>>

\* the variables of the annotation layer while only a snippet is being built
NoAnnotations == Annotations_new(SnippetBuilder_new, 0)

\* the variables of the builder layer once a snippet is given
NoBuilder ==
    /\ builder = SnippetBuilder_new
    /\ built = FALSE
    /\ conv = NoConv

annot_vars == <<snippet, first_line_no, src_annots, max_pos, annots, lines,
                num_ml_slots, pc, rparams, prev_line_i, ml_slots, out, n_calls,
                result, returned,
                   range_set>>

InitBuild ==
    /\ builder = SnippetBuilder_new
    /\ built = FALSE
    /\ conv = NoConv
    /\ NoAnnotations

NextBuild ==
    \/ \E n \in OrigLens : b_next_line(n) /\ UNCHANGED annot_vars
    \/ \E n \in OrigLens \ {0} : b_push_empty(n) /\ UNCHANGED annot_vars
    \/ \E t \in Texts, n \in OrigLens : b_push_str(t, n) /\ UNCHANGED annot_vars
    \/ b_finish /\ UNCHANGED annot_vars
    \/ \E s \in 0..(Len(builder.metas) + 1), e \in 0..(Len(builder.metas) + 1) :
          s <= e /\ b_convert_span(s, e) /\ UNCHANGED annot_vars

SpecBuild == InitBuild /\ [][NextBuild]_vars

\* C5: for 0 <= s <= e <= len, convert_span widens s backward and e forward to
\* positions that are not continuation records (so columns and byte offsets
\* fall on chunk boundaries), and resolving the widened span again gives the
\* same SourceSpan.
C5_WideningIdempotent ==
    (conv.done /\ conv.s <= conv.e /\ conv.e <= Len(builder.metas)) =>
        /\ 0 <= conv.s1 /\ conv.s1 <= conv.s
        /\ conv.e <= conv.e1 /\ conv.e1 <= Len(builder.metas)
        /\ conv.s1 < Len(builder.metas) => ~is_extra(At0(builder.metas, conv.s1))
        /\ conv.e1 < Len(builder.metas) => ~is_extra(At0(builder.metas, conv.e1))
        /\ conv.again = conv.span

\* C5 witness: a span that starts and ends inside multi-unit chunks has been resolved
C5_Witness ==
    /\ conv.done /\ conv.s <= conv.e /\ conv.e <= Len(builder.metas)
    /\ conv.s1 < conv.s /\ conv.e < conv.e1
    /\ conv.span.end_col > conv.span.start_col

-----------------------------------------------------------------------------
(* Lane assignment of multi-line annotations *)

\* n lines "ab\n" appended to b
RECURSIVE push_ab_lines(_, _)
push_ab_lines(b, n) ==
    IF n = 0 THEN b
    ELSE next_line(push_str(push_str(push_ab_lines(b, n - 1), 1, 1, 1, FALSE),
                            1, 1, 1, FALSE), 1)

\* bounds of the lane runs: lines of the snippet, annotations added
LaneLines == 5
MaxLaneAnnots == 4

LaneSnippet == finish(push_ab_lines(SnippetBuilder_new, LaneLines))

\* spans from column c of line k to the first character of line k + h
LaneSpans ==
    {<<3 * k + c, 3 * (k + 1) + 1>> : k \in 0..(LaneLines - 2), c \in {0, 1}}
    \cup {<<3 * 1 + 1, 3 * 3 + 1>>}

DefaultParams == [width |-> max_line_no_width, fill_after |-> 0, fill_before |-> 0,
                  margin |-> TRUE, fail_at |-> 0]

InitLanes == NoBuilder /\ Annotations_new(LaneSnippet, 1)

NextLanes ==
    \/ \E sp \in LaneSpans :
          Len(src_annots) < MaxLaneAnnots /\ add_annotation(sp, <<1>>)
    \/ render_begin(DefaultParams)
    \/ render_step

SpecLanes == InitLanes /\ [][NextLanes]_vars

multi_line_annots == {i \in 1..Len(annots) : is_multi_line(annots[i])}

\* the overlap of vertical extents: strict intersection of the line ranges, or
\* one annotation starting at column 0 on the line on which the other ends
extents_overlap(a, b) ==
    \/ Max(a.start_line, b.start_line) < Min(a.end_line, b.end_line)
    \/ (a.start_col = 0 /\ a.start_line = b.end_line)
    \/ (b.start_col = 0 /\ b.start_line = a.end_line)

\* C1: any two multi-line annotations whose vertical extents overlap (strict
\* line-range intersection or the column-0 rule) have different lanes,
\* whatever the insertion order.
C1_OverlappingLanesDiffer ==
    \A i \in multi_line_annots, j \in multi_line_annots :
        (i # j /\ extents_overlap(annots[i], annots[j])) =>
            annots[i].ml_slot # annots[j].ml_slot

\* C1 witness: two annotations that overlap by the column-0 rule only, the later-added one
\* being the one that ends on the shared line
C1_Witness ==
    \E i \in multi_line_annots, j \in multi_line_annots :
        /\ i < j
        /\ annots[i].start_col = 0 /\ annots[i].start_line = annots[j].end_line
        /\ annots[i].ml_slot # annots[j].ml_slot

\* the largest number of mutually overlapping multi-line annotations
largest_clique ==
    LET cliques == {S \in SUBSET multi_line_annots :
                      \A i \in S, j \in S :
                          i # j => extents_overlap(annots[i], annots[j])}
    IN CHOOSE n \in 0..Len(annots) :
          /\ \E S \in cliques : Cardinality(S) = n
          /\ \A S \in cliques : Cardinality(S) <= n

\* C2 as stated: the number of lanes equals the largest number of mutually
\* overlapping multi-line annotations, for every insertion order.
C2_LanesMinimal ==
    pc \in {"lines", "done"} => num_ml_slots = largest_clique

lanes_of_earlier_overlapping(i) ==
    {annots[j].ml_slot : j \in {j \in multi_line_annots :
                                   j < i /\ extents_overlap(annots[i], annots[j])}}

\* C2 amended: every multi-line annotation gets the smallest lane not used by
\* an earlier-added multi-line annotation that overlaps it, num_ml_slots is one
\* more than the largest lane in use, and it is at least the largest number
\* of mutually overlapping multi-line annotations.
C2_LanesFirstFit ==
    pc \in {"lines", "done"} =>
        /\ \A i \in multi_line_annots :
              /\ annots[i].ml_slot \notin lanes_of_earlier_overlapping(i)
              /\ \A s \in 0..(annots[i].ml_slot - 1) :
                    s \in lanes_of_earlier_overlapping(i)
        /\ \A i \in multi_line_annots : annots[i].ml_slot < num_ml_slots
        /\ num_ml_slots > 0 =>
              \E i \in multi_line_annots : annots[i].ml_slot = num_ml_slots - 1
        /\ num_ml_slots >= largest_clique

\* C2 witness: an insertion order that takes more lanes than the largest overlap
C2_Witness ==
    /\ pc \in {"lines", "done"}
    /\ Cardinality(multi_line_annots) = 4
    /\ num_ml_slots = 3 /\ largest_clique = 2

-----------------------------------------------------------------------------
(* Spans of every shape on a snippet with a wide character and a CRLF *)

\* "a", a wide character given by two source units, CRLF, then "c" without a
\* final line break
MainSnippet ==
    finish(push_str(next_line(push_str(push_str(SnippetBuilder_new, 1, 1, 1, FALSE),
                                       2, 3, 2, FALSE), 2),
                    1, 1, 1, FALSE))

MainLen == Len(MainSnippet.metas)

\* bound of the runs: annotations added before render
MaxAnnots == 2

\* positions up to one past the end of the source, in either order
MainSpans == {<<s, e>> : s \in 0..(MainLen + 1), e \in 0..(MainLen + 1)}

FirstLineNos == {0, 9}

\* render with max_line_no_width = self.max_line_no_width() + slack
MainParams(slack) ==
    [width |-> max_line_no_width + slack, fill_after |-> 1, fill_before |-> 0,
     margin |-> TRUE, fail_at |-> 0]

Init == NoBuilder /\ \E no \in FirstLineNos : Annotations_new(MainSnippet, no)

Next ==
    \/ \E sp \in MainSpans : Len(src_annots) < MaxAnnots /\ add_annotation(sp, <<1>>)
    \/ \E slack \in {0, 1} : render_begin(MainParams(slack))
    \/ render_step

Spec == Init /\ [][Next]_vars

placed == pc \in {"lines", "done", "failed", "flood"} \/ (pc = "panic" /\ annots # <<>>)

span_of(i) == src_annots[i].span

in_order == \A i \in 1..Len(src_annots) : span_of(i)[1] <= span_of(i)[2]

\* render did not return: it panicked or writes padding without end
panicked == pc \in {"panic", "flood"}

\* the placement computed through pos_to_line_col, calc_start_col and
\* calc_end_col is the one Snippet::convert_span gives, up to the widening of
\* an empty column interval by one caret
PlacementAgreesWithConvertSpan ==
    placed =>
        \A i \in 1..Len(annots) :
            LET cs == convert_span(snippet, span_of(i)[1], span_of(i)[2])
            IN /\ annots[i].start_line = cs.start_line
               /\ annots[i].start_col = cs.start_col
               /\ annots[i].end_line = cs.end_line
               /\ annots[i].end_col =
                     IF cs.start_line = cs.end_line
                     THEN at_least_one_caret(cs.start_col, cs.end_col)
                     ELSE cs.end_col

\* C4: a zero-length span at any position 0 <= p <= number of units is placed
\* as a single-line annotation with exactly one caret column.
C4_ZeroLengthOneCaret ==
    placed =>
        \A i \in 1..Len(annots) :
            (span_of(i)[1] = span_of(i)[2] /\ span_of(i)[1] <= Len(snippet.metas)) =>
                /\ ~is_multi_line(annots[i])
                /\ annots[i].end_col - annots[i].start_col = 1

clamp_to_eof(sp) == <<Min(sp[1], Len(snippet.metas)), Min(sp[2], Len(snippet.metas))>>

\* src with every span clamped to the number of units
clamped_spans(src) == [k \in 1..Len(src) |-> [src[k] EXCEPT !.span = clamp_to_eof(@)]]

last_line == num_lines(snippet) - 1

last_line_width ==
    gather_width(snippet, src_line_range(snippet, last_line).start, Len(snippet.metas))

beyond_eof(sp) == sp[1] > Len(snippet.metas) \/ sp[2] > Len(snippet.metas)

eof_caret(annot) ==
    /\ annot.start_line = last_line /\ annot.end_line = last_line
    /\ annot.start_col = last_line_width
    /\ annot.end_col = last_line_width + 1

zero_length_at_start(sp) == IF sp[1] > sp[2] THEN <<sp[1], sp[1]>> ELSE sp

\* src with every span start > end replaced by start..start
ordered_spans(src) ==
    [k \in 1..Len(src) |-> [src[k] EXCEPT !.span = zero_length_at_start(@)]]

RECURSIVE row_start(_, _)
row_start(ev, k) == IF k = 1 \/ ev[k - 1].s = "newline" THEN k ELSE row_start(ev, k - 1)

right_aligned(ev, k, width) ==
    LET pad == width - line_no_width(ev[k].a)
    IN /\ pad >= 0
       /\ row_start(ev, k) = k - pad
       /\ \A j \in (k - pad)..(k - 1) : ev[j].s = "space"

\* C10: when every added span has start <= end and render is called with a
\* width of at least max_line_no_width(), the margin padding never underflows
\* and every printed line number (line index + first_line_no, 0 counting as
\* one digit) is right-aligned in a field of that width.
C10_LineNoWidthSuffices ==
    (in_order /\ rparams.width >= max_line_no_width) =>
        /\ result # "subtract with overflow" /\ pc # "flood"
        /\ max_line_no_width >= 1
        /\ \A l \in DOMAIN lines : line_no_width(l + first_line_no) <= max_line_no_width
        /\ \A k \in 1..Len(out) :
              out[k].s = "line_no" =>
                 /\ out[k].a = out[k].line + first_line_no
                 /\ right_aligned(out, k, rparams.width)

\* C10 witness: a rendering that printed a two-digit and a one-digit line number, the field
\* being wider than both
C10_Witness ==
    /\ in_order /\ pc = "done" /\ Len(src_annots) = 2
    /\ rparams.width = 3
    /\ \E k \in 1..Len(out) : out[k].s = "line_no" /\ out[k].a = 9
    /\ \E k \in 1..Len(out) : out[k].s = "line_no" /\ out[k].a = 10

-----------------------------------------------------------------------------
(* Overlap marking of single-line annotations *)

\* "ab", a line break, "c"
SingleSnippet ==
    finish(push_str(next_line(push_str(push_str(SnippetBuilder_new, 1, 1, 1, FALSE),
                                       1, 1, 1, FALSE), 1),
                    1, 1, 1, FALSE))

\* bound of the runs: annotations added before render
MaxSingleAnnots == 3

SingleSpans ==
    {<<s, e>> : s \in 0..Len(SingleSnippet.metas), e \in 0..Len(SingleSnippet.metas)}
    \ {<<s, e>> \in (0..Len(SingleSnippet.metas)) \X (0..Len(SingleSnippet.metas)) :
          s > e}

InitSingle == NoBuilder /\ Annotations_new(SingleSnippet, 1)

NextSingle ==
    \/ \E sp \in SingleSpans :
          Len(src_annots) < MaxSingleAnnots /\ add_annotation(sp, <<1>>)
    \/ render_begin(DefaultParams)
    \/ render_step

SpecSingle == InitSingle /\ [][NextSingle]_vars

single_line_annots == {i \in 1..Len(annots) : ~is_multi_line(annots[i])}

\* b makes a overlap: another single-line annotation of the same line whose
\* column interval intersects that of a
marks(a, b) ==
    /\ a # b
    /\ annots[a].start_line = annots[b].start_line
    /\ Max(annots[a].start_col, annots[b].start_col)
          < Min(annots[a].end_col, annots[b].end_col)

\* C3: a single-line annotation has sl_overlaps exactly when another
\* single-line annotation of its line intersects its column interval (end
\* columns after the one-caret widening), whichever of the two was added
\* first; multi-line annotations are never marked.
C3_OverlapMarking ==
    /\ \A a \in single_line_annots :
          annots[a].sl_overlaps <=> \E b \in single_line_annots : marks(a, b)
    /\ \A a \in single_line_annots, b \in single_line_annots :
          marks(a, b) => (annots[a].sl_overlaps /\ annots[b].sl_overlaps)
    /\ \A a \in 1..Len(annots) : is_multi_line(annots[a]) => ~annots[a].sl_overlaps

\* C3 witness: three annotations of one line: the first was marked by the third, which
\* was added later, and the second, which touches the first without
\* intersecting it, is not marked
C3_Witness ==
    /\ Len(annots) = 3 /\ single_line_annots = {1, 2, 3}
    /\ annots[1].start_line = annots[2].start_line
    /\ annots[1].end_col = annots[2].start_col
    /\ marks(1, 3) /\ ~marks(1, 2) /\ ~marks(2, 3)
    /\ annots[1].sl_overlaps /\ annots[3].sl_overlaps /\ ~annots[2].sl_overlaps

-----------------------------------------------------------------------------
(* Unannotated lines between annotated lines *)

\* bounds of the gap runs: lines of the snippet, annotations added
GapLines == 6
MaxGapAnnots == 3

GapSnippet == finish(push_ab_lines(SnippetBuilder_new, GapLines))

\* the first character of each line
GapSpans == {<<3 * k, 3 * k + 1>> : k \in 0..(GapLines - 1)}

\* the values of max_fill_after_first and max_fill_before_last
Fills == {0, 1, 2}

GapParams(after, before) ==
    [width |-> max_line_no_width, fill_after |-> after, fill_before |-> before,
     margin |-> TRUE, fail_at |-> 0]

InitGap == NoBuilder /\ Annotations_new(GapSnippet, 1)

NextGap ==
    \/ \E sp \in GapSpans : Len(src_annots) < MaxGapAnnots /\ add_annotation(sp, <<1>>)
    \/ \E after \in Fills, before \in Fills : render_begin(GapParams(after, before))
    \/ render_step

SpecGap == InitGap /\ [][NextGap]_vars

\* the rows of out that show source text or a discontinuity, in order:
\* <<kind of row, line>>
shown_rows(ev) ==
    LET ends_row(w) == w.s = "newline" /\ w.row \in {"text", "filler", "dots"}
        ends == SelectSeq(ev, ends_row)
    IN [k \in 1..Len(ends) |-> <<ends[k].row, ends[k].line>>]

filler_rows(from, to) == [k \in 1..(to - from + 1) |-> <<"filler", from + k - 1>>]

\* the rows between the annotated lines p < q
gap_of(p, q, after, before) ==
    IF q - p - 1 > after + before
    THEN filler_rows(p + 1, p + after) \o <<<<"dots", None_>>>>
         \o filler_rows(q - before, q - 1)
    ELSE filler_rows(p + 1, q - 1)

\* the rows from the annotated line p on, p included
RECURSIVE rows_from(_, _, _, _)
rows_from(lns, p, after, before) ==
    LET q == next_key(lns, p)
    IN <<<<"text", p>>>>
       \o (IF q = None_ THEN <<>>
           ELSE gap_of(p, q, after, before) \o rows_from(lns, q, after, before))

\* C6: between two consecutive annotated lines p < q with g = q - p - 1, a
\* completed rendering shows the lines p+1 .. p+max_fill_after_first, one
\* discontinuity row and the lines q-max_fill_before_last .. q-1 when
\* g > max_fill_after_first + max_fill_before_last, and otherwise every line
\* p+1 .. q-1 once, in order, without discontinuity row.
C6_GapRows ==
    (pc = "done" /\ DOMAIN lines # {}) =>
        shown_rows(out) = rows_from(lines, next_key(lines, None_),
                                    rparams.fill_after, rparams.fill_before)

\* C6 witness: a gap of three lines shown as one line, the discontinuity row and one
\* line, in a rendering that also has a gap shown whole
C6_Witness ==
    /\ pc = "done" /\ rparams.fill_after = 1 /\ rparams.fill_before = 1
    /\ DOMAIN lines = {0, 1, 5}
    /\ shown_rows(out) = <<<<"text", 0>>, <<"text", 1>>, <<"filler", 2>>,
                           <<"dots", None_>>, <<"filler", 4>>, <<"text", 5>>>>

-----------------------------------------------------------------------------
(* A sink that fails *)

\* bounds of the sink runs: annotations added, the latest failing write call
MaxSinkAnnots == 2
MaxFailAt == 30

SinkSpans == {<<0, 1>>, <<1, 3>>, <<3, 3>>, <<0, 6>>, <<5, 6>>}

SinkParams(k) ==
    [width |-> max_line_no_width, fill_after |-> 0, fill_before |-> 0,
     margin |-> TRUE, fail_at |-> k]

InitSink == NoBuilder /\ Annotations_new(MainSnippet, 1)

NextSink ==
    \/ \E sp \in SinkSpans : Len(src_annots) < MaxSinkAnnots /\ add_annotation(sp, <<1>>)
    \/ \E k \in 0..MaxFailAt : render_begin(SinkParams(k))
    \/ render_step

SpecSink == InitSink /\ [][NextSink]_vars

\* C7: when the sink returns an error on its k-th write call, render returns
\* that error, the sink receives no call after the k-th, and the fragments of
\* calls 1 .. k-1 are the first k-1 fragments of the error-free rendering; a
\* sink that does not fail within the rendering receives all of it.
C7_SinkErrorStopsRender ==
    /\ rparams.fail_at # 0 => n_calls <= rparams.fail_at
    /\ pc = "failed" =>
          /\ result = "err"
          /\ n_calls = rparams.fail_at
          /\ rparams.fail_at - 1 <= Len(render_all(render_cx))
          /\ fragments(out) =
                SubSeq(fragments(render_all(render_cx)), 1, rparams.fail_at - 1)
    /\ pc = "done" => fragments(out) = fragments(render_all(render_cx))
    /\ result = "err" => pc = "failed"

\* C7 witness: the sink failed on a write of the second annotated line, after the first
\* line was written whole
C7_Witness ==
    /\ pc = "failed" /\ result = "err"
    /\ prev_line_i = 0 /\ n_calls = rparams.fail_at
    /\ Len(out) = rparams.fail_at - 1 /\ Len(out) > 0
    /\ out[Len(out)].line = 1

-----------------------------------------------------------------------------
(* Labels of single-line annotations *)

\* "abcde", a line break, "fg"
LabelSnippet ==
    LET ch(b) == push_str(b, 1, 1, 1, FALSE)
    IN finish(ch(ch(next_line(ch(ch(ch(ch(ch(SnippetBuilder_new))))), 1))))

\* bound of the label runs: annotations added before render
MaxLabelAnnots == 3

\* five spans of the first line and one from the first line to the second
LabelSpans == {<<0, 1>>, <<0, 4>>, <<1, 2>>, <<3, 5>>, <<4, 5>>, <<1, 7>>}

\* labels as fragment lengths: no fragment, one empty fragment, an empty
\* fragment followed by two characters
Labels == {<<>>, <<0>>, <<0, 2>>}

InitLabel == NoBuilder /\ Annotations_new(LabelSnippet, 1)

NextLabel ==
    \/ \E sp \in LabelSpans, label \in Labels :
          Len(src_annots) < MaxLabelAnnots /\ add_annotation(sp, label)
    \/ render_begin(DefaultParams)
    \/ render_step

SpecLabel == InitLabel /\ [][NextLabel]_vars

\* the ends of the rows of the given kind under line line_i
newlines_of(ev, row, line_i) ==
    {k \in 1..Len(ev) : ev[k].s = "newline" /\ ev[k].row = row /\ ev[k].line = line_i}

\* the k-th smallest element of a set of numbers
nth(S, k) == CHOOSE x \in S : Cardinality({y \in S : y < x}) = k - 1

\* the row that the newline ev[k] ends
row_before(ev, k) == SubSeq(ev, row_start(ev, k), k - 1)

\* the label fragments written in a row: <<annotation, fragment, length>>
label_part(r) ==
    LET is_label(w) == w.s = "label"
        ws == SelectSeq(r, is_label)
    IN [k \in 1..Len(ws) |-> <<ws[k].mi, ws[k].b, ws[k].c>>]

\* the fragments of the label of annotation i (counted from 0)
label_of(i) ==
    [k \in 1..Len(At0(annots, i).label) |-> <<i, k - 1, At0(annots, i).label[k]>>]

has_text(i) == \E k \in 1..Len(At0(annots, i).label) : At0(annots, i).label[k] > 0

\* the single-line annotations of line l, counted from 0
sl_on(l) ==
    {i \in 0..(Len(annots) - 1) :
        ~is_multi_line(At0(annots, i)) /\ At0(annots, i).start_line = l}

\* j follows i in (start_col, insertion index) order
follows(i, j) ==
    \/ At0(annots, j).start_col > At0(annots, i).start_col
    \/ (At0(annots, j).start_col = At0(annots, i).start_col /\ j > i)

last_on(l) == CHOOSE i \in sl_on(l) : \A j \in sl_on(l) : ~follows(i, j)

\* the annotations of line l that get a label row
with_label_row(l) ==
    IF At0(annots, last_on(l)).sl_overlaps THEN sl_on(l) ELSE sl_on(l) \ {last_on(l)}

\* the k-th of R in descending (start_col, insertion index) order
descending(R, k) == CHOOSE i \in R : Cardinality({j \in R : follows(i, j)}) = k - 1

\* C11: on each line with single-line annotations, with L the last one in
\* (start_col, insertion index) order: the caret row carries the label of L
\* iff L does not overlap a sibling and its label has a non-empty fragment;
\* every other single-line annotation, and L when it overlaps, has a label
\* row; the label rows come in descending start-column order after one
\* connector row; every non-empty label is written exactly once.
C11_LabelPlacement ==
    pc = "done" =>
        \A l \in DOMAIN lines :
            sl_on(l) # {} =>
                LET L == last_on(l)
                    R == with_label_row(l)
                    carets == newlines_of(out, "carets", l)
                    conn == newlines_of(out, "connector", l)
                    labs == newlines_of(out, "label", l)
                IN /\ Cardinality(carets) = 1
                   /\ \A k \in carets :
                         label_part(row_before(out, k)) =
                            IF ~At0(annots, L).sl_overlaps /\ has_text(L)
                            THEN label_of(L) ELSE <<>>
                   /\ Cardinality(conn) = IF R = {} THEN 0 ELSE 1
                   /\ Cardinality(labs) = Cardinality(R)
                   /\ \A c \in carets, k \in conn : c < k
                   /\ \A c \in conn, k \in labs : c < k
                   /\ \A k \in 1..Cardinality(R) :
                         label_part(row_before(out, nth(labs, k))) =
                            label_of(descending(R, k))
                   /\ \A i \in sl_on(l) :
                         has_text(i) =>
                            \A f \in 1..Len(At0(annots, i).label) :
                               Cardinality({j \in 1..Len(out) :
                                               /\ out[j].s = "label"
                                               /\ out[j].mi = i
                                               /\ out[j].b = f - 1}) = 1

\* C11 witness: three annotations of one line, the last one with its label
\* on the caret row, the two others overlapping each other with a label row
\* each
C11_Witness ==
    /\ pc = "done" /\ sl_on(0) = {0, 1, 2}
    /\ ~At0(annots, last_on(0)).sl_overlaps /\ has_text(last_on(0))
    /\ Cardinality(newlines_of(out, "label", 0)) = 2
    /\ \A i \in with_label_row(0) : At0(annots, i).sl_overlaps /\ has_text(i)
    /\ \E k \in newlines_of(out, "carets", 0) :
          label_part(row_before(out, k)) = label_of(last_on(0))

-----------------------------------------------------------------------------
(* Display columns of the writes of a row *)

\* the number of display columns a write takes
cell_width(w) ==
    IF w.s = "line_no" THEN line_no_width(w.a)
    ELSE IF w.s = "label" THEN w.c
    ELSE IF w.s = "text" THEN w.c - w.b
    ELSE IF w.s = "newline" THEN 0
    ELSE 1

RECURSIVE width_sum(_, _, _)
width_sum(ev, from, to) ==
    IF from > to THEN 0 ELSE cell_width(ev[to]) + width_sum(ev, from, to - 1)

\* the display column at which the write ev[k] begins
col_of(ev, k) == width_sum(ev, row_start(ev, k), k - 1)

\* the columns of the margin: the number field, a space, the bar, a space
margin_cols == IF rparams.margin THEN rparams.width + 3 ELSE 0

\* the writes of lane glyphs: bars and corners of a multi-line annotation and
\* the horizontals that cross a lane
lane_glyphs(ev) ==
    {k \in 1..Len(ev) :
        \/ /\ ev[k].s \in {"vertical", "top_vertical", "top_corner", "bottom_corner"}
           /\ is_multi_line(At0(annots, ev[k].mi))
        \/ ev[k].s = "horizontal" /\ ev[k].a # None_}

\* C12: in every row of a completed rendering the gutter cells are drawn in
\* descending lane order from left to right, lane 0 next to the line text:
\* the glyph of lane s is at column (margin + num_ml_slots - 1 - s) and a bar
\* or corner is in the lane of its annotation; two multi-line annotations with
\* the same span get the lanes 0 and 1 when they are the only ones, and in
\* every row that shows both the one added second is to the left of the one
\* added first.
C12_GutterDescendingLanes ==
    pc = "done" =>
        LET glyphs == lane_glyphs(out)
            start == [k \in 1..Len(out) |-> row_start(out, k)]
            col == [k \in glyphs |-> width_sum(out, start[k], k - 1)]
        IN /\ \A k \in glyphs :
                 /\ out[k].a \in 0..(num_ml_slots - 1)
                 /\ col[k] = margin_cols + (num_ml_slots - 1 - out[k].a)
                 /\ out[k].s # "horizontal" => At0(annots, out[k].mi).ml_slot = out[k].a
           /\ \A j \in glyphs, k \in glyphs :
                 (start[j] = start[k] /\ j < k) => out[j].a > out[k].a
           /\ \A i \in multi_line_annots, j \in multi_line_annots :
                 (i < j /\ span_of(i) = span_of(j)) =>
                    /\ annots[i].ml_slot < annots[j].ml_slot
                    /\ Len(annots) = 2 =>
                          (annots[i].ml_slot = 0 /\ annots[j].ml_slot = 1)
                    /\ \A x \in glyphs, y \in glyphs :
                          (/\ start[x] = start[y]
                           /\ out[x].s # "horizontal" /\ out[x].mi = i - 1
                           /\ out[y].s # "horizontal" /\ out[y].mi = j - 1)
                          => col[y] < col[x]

\* C12 witness: two annotations with the same span, rendered to the end, with
\* a row between their first and last lines that shows the bar of the second
\* to the left of the bar of the first
C12_Witness ==
    /\ pc = "done" /\ Len(annots) = 2 /\ span_of(1) = span_of(2)
    /\ annots[1].ml_slot = 0 /\ annots[2].ml_slot = 1
    /\ \E j \in lane_glyphs(out), k \in lane_glyphs(out) :
          /\ j + 1 = k /\ out[j].s = "vertical" /\ out[k].s = "vertical"
          /\ out[j].row = "dots"
          /\ out[j].mi = 1 /\ out[k].mi = 0

-----------------------------------------------------------------------------
(* The line map of a built snippet *)

\* the number of next_line calls made on the builder
next_line_calls ==
    Cardinality({k \in 1..Len(builder.log) : builder.log[k][1] = "next_line"})

\* C13: after any sequence of push_* and next_line calls with any orig_len,
\* then finish, src_line_map is strictly increasing, each entry is greater
\* than 0 and at most the number of units, and the snippet has one line more
\* than the number of next_line calls.
C13_LineMapStrictlyIncreasing ==
    built =>
        /\ \A k \in 1..Len(builder.src_line_map) :
              /\ builder.src_line_map[k] > 0
              /\ builder.src_line_map[k] <= Len(builder.metas)
              /\ k > 1 => builder.src_line_map[k - 1] < builder.src_line_map[k]
        /\ num_lines(builder) = next_line_calls + 1

-----------------------------------------------------------------------------
(* Annotations without label text *)

\* C14: for an annotation, single-line or multi-line, whose label is empty or
\* has only empty fragments, nothing is written for the label: every fragment
\* written for it is empty, and no separator space follows its caret (a space
\* after the caret that is followed by the label or by the end of the row).
C14_EmptyLabelWritesNothing ==
    pc = "done" =>
        \A i \in 0..(Len(annots) - 1) :
            ~has_text(i) =>
                /\ \A k \in 1..Len(out) :
                      (out[k].s = "label" /\ out[k].mi = i) => out[k].c = 0
                /\ \A k \in 1..(Len(out) - 2) :
                      (/\ out[k].s = "caret" /\ out[k].mi = i
                       /\ out[k].row \in {"carets", "ml_end"}
                       /\ out[k + 1].s = "space")
                      => /\ out[k + 2].s # "newline"
                         /\ ~(out[k + 2].s = "label" /\ out[k + 2].mi = i)

-----------------------------------------------------------------------------
(* Rendering the same annotations more than once *)

\* bounds of the repeated runs: annotations added, render calls that return
\* before the last one
MaxTwiceAnnots == 2
MaxReturns == 1

\* the two widths of the line number field the runs render with
TwiceParams == {DefaultParams, MainParams(1)}

InitTwice == NoBuilder /\ Annotations_new(SingleSnippet, 1)

NextTwice ==
    \/ \E sp \in SingleSpans :
          Len(src_annots) < MaxTwiceAnnots /\ add_annotation(sp, <<1>>)
    \/ \E params \in TwiceParams : render_begin(params)
    \/ render_step
    \/ Len(returned) < MaxReturns /\ render_return

SpecTwice == InitTwice /\ [][NextTwice]_vars

\* C15: render does not modify the collection: while and after it runs, the
\* placement it works on is the one the added annotations give, and a call
\* that completes with the same annotations and the same max_line_no_width,
\* max_fill_after_first and max_fill_before_last as a call that returned
\* before has made the same sequence of (fragment, metadata) writes and
\* returns the same result.
C15_RenderTwiceIdentical ==
    /\ pc \in {"lines", "done"} =>
          LET st == pre_process(snippet, src_annots, Len(src_annots))
          IN annots = st.annots /\ lines = st.lines
             /\ num_ml_slots = st.num_ml_slots
    /\ pc = "done" =>
          \A k \in 1..Len(returned) :
             (returned[k].src = src_annots /\ returned[k].params = rparams) =>
                /\ fragments(out) = returned[k].out
                /\ result = returned[k].result

\* C15 witness: a second rendering of two annotations, one of them
\* multi-line, completed with the arguments of the first
C15_Witness ==
    /\ pc = "done" /\ Len(returned) = 1
    /\ Len(src_annots) = 2 /\ returned[1].src = src_annots
    /\ returned[1].params = rparams
    /\ multi_line_annots # {} /\ single_line_annots # {}
    /\ Len(out) > 0 /\ fragments(out) = returned[1].out

-----------------------------------------------------------------------------
(* The gutter table during render *)

lane_asserts == {"assert slot is none (column 0 start)", "assert not is_slot_start",
                 "assert slot is some (end)", "assert slot is none (start)"}

\* the multi-line annotations (counted from 0) that are open after line p:
\* started on or before p and ending after it
open_after(p) ==
    {i \in 0..(Len(annots) - 1) :
        /\ is_multi_line(At0(annots, i))
        /\ p # None_
        /\ At0(annots, i).start_line <= p /\ p < At0(annots, i).end_line}

\* C16: during render each lane goes closed -> open -> closed: none of the
\* assertions on the gutter table fails (a lane is closed when an annotation
\* opens it, open when an annotation closes it), after each rendered line a
\* lane is open exactly for the annotation of that lane that has started and
\* not yet ended, and all lanes are closed when render finishes.
C16_LaneLifecycle ==
    /\ result \notin lane_asserts
    /\ pc \in {"lines", "done"} =>
          /\ Len(ml_slots) = num_ml_slots
          /\ \A i \in open_after(prev_line_i) :
                At0(ml_slots, At0(annots, i).ml_slot) = i
          /\ \A s \in 0..(num_ml_slots - 1) :
                At0(ml_slots, s) # None_ => At0(ml_slots, s) \in open_after(prev_line_i)
    /\ pc = "done" => \A s \in 0..(num_ml_slots - 1) : At0(ml_slots, s) = None_

\* C16 witness: a completed rendering in which lane 0 was used by three
\* annotations one after the other, while lane 1 was open
C16_Witness ==
    /\ pc = "done" /\ result = "ok" /\ num_ml_slots = 2
    /\ Cardinality({i \in multi_line_annots : annots[i].ml_slot = 0}) = 3
    /\ \E i \in multi_line_annots : annots[i].ml_slot = 1
    /\ \A s \in 0..(num_ml_slots - 1) : At0(ml_slots, s) = None_

-----------------------------------------------------------------------------
(* Caret owners *)

\* the single-line annotations of line l (counted from 0) whose column
\* interval contains column c
covering(l, c) ==
    {i \in sl_on(l) : At0(annots, i).start_col <= c /\ c < At0(annots, i).end_col}

earliest(S) == CHOOSE i \in S : \A j \in S : i <= j

\* the largest end column of the single-line annotations of line l
max_end_col(l) ==
    IF sl_on(l) = {} THEN 0
    ELSE LET ends == {At0(annots, i).end_col : i \in sl_on(l)}
         IN CHOOSE e \in ends : \A f \in ends : f <= e

\* C17: caret ownership is first-writer-wins: on every line, sl_carets[c] is
\* the earliest-added single-line annotation of the line whose
\* [start_col, end_col) contains c, or the 'none' value usize::MAX when there
\* is none, and sl_carets is as long as the largest end_col of the
\* single-line annotations of the line.
C17_CaretFirstWriterWins ==
    \A l \in DOMAIN lines :
        /\ Len(lines[l].sl_carets) = max_end_col(l)
        /\ \A c \in 0..(Len(lines[l].sl_carets) - 1) :
              At0(lines[l].sl_carets, c) =
                 IF covering(l, c) = {} THEN USIZE_MAX ELSE earliest(covering(l, c))

\* C17 witness: the second annotation covers the column of the first and the
\* columns around it; it owns the columns around it only, and a third
\* annotation lengthens the array
C17_Witness ==
    /\ Len(annots) = 3 /\ sl_on(0) = {0, 1, 2}
    /\ lines[0].sl_carets = <<1, 0, 1, 1, 2>>
    /\ covering(0, 1) = {0, 1}

-----------------------------------------------------------------------------
(* Style owners of the rendered bytes *)

\* "a", an escape of three bytes for a character of two source units marked
\* alternate, "b", a line break, "cd"
StyleSnippet ==
    LET ch(b) == push_str(b, 1, 1, 1, FALSE)
    IN finish(ch(ch(next_line(ch(push_str(ch(SnippetBuilder_new), 3, 3, 2, TRUE)), 1))))

\* bound of the style runs: annotations added before render
MaxStyleAnnots == 3

\* single-line spans of both lines (one of them empty, two with a boundary
\* inside the escape) and spans from the first line to the second
StyleSpans == {<<0, 1>>, <<0, 2>>, <<1, 3>>, <<2, 4>>, <<3, 4>>, <<0, 4>>, <<3, 3>>,
               <<5, 6>>, <<5, 7>>, <<1, 6>>, <<3, 7>>, <<0, 6>>}

InitStyle == NoBuilder /\ Annotations_new(StyleSnippet, 1)

NextStyle ==
    \/ \E sp \in StyleSpans :
          Len(src_annots) < MaxStyleAnnots /\ add_annotation(sp, <<1>>)
    \/ render_begin(DefaultParams)
    \/ render_step

SpecStyle == InitStyle /\ [][NextStyle]_vars

\* annotation i (counted from 0) covers the rendered byte b of line l: the
\* resolved byte range of a single-line annotation; from the start byte to
\* the end of the line on the start line of a multi-line annotation and from
\* the start of the line to the end byte on its end line
covers_byte(i, l, b) ==
    LET cs == convert_span(snippet, span_of(i + 1)[1], span_of(i + 1)[2])
    IN IF cs.start_line = cs.end_line
       THEN l = cs.start_line /\ cs.start_utf8 <= b /\ b < cs.end_utf8
       ELSE \/ l = cs.start_line /\ cs.start_utf8 <= b
            \/ l = cs.end_line /\ b < cs.end_utf8

covering_byte(l, b) == {i \in 0..(Len(annots) - 1) : covers_byte(i, l, b)}

\* C18: style ownership is first-writer-wins across single-line and
\* multi-line annotations: the owner of each rendered byte of an annotated
\* line is the earliest-added annotation that covers it, or the 'none' value
\* usize::MAX when no annotation covers it, and the alt flag of each byte is
\* the one of the snippet.
C18_StyleFirstWriterWins ==
    \A l \in DOMAIN lines :
        /\ Len(lines[l].styles) = line_text_len(snippet, l)
        /\ \A b \in 0..(Len(lines[l].styles) - 1) :
              /\ At0(lines[l].styles, b)[1] =
                    IF covering_byte(l, b) = {} THEN USIZE_MAX
                    ELSE earliest(covering_byte(l, b))
              /\ At0(lines[l].styles, b)[2] = At0(gather_styles(snippet, l), b)[2]

\* C18 witness: a single-line annotation on the escape, then a multi-line
\* annotation over it from the start of the line, then a single-line
\* annotation on the second line: each byte has the first of them
C18_Witness ==
    /\ Len(annots) = 3
    /\ ~is_multi_line(annots[1]) /\ is_multi_line(annots[2]) /\ ~is_multi_line(annots[3])
    /\ lines[0].styles = <<<<1, FALSE>>, <<0, TRUE>>, <<0, TRUE>>, <<0, TRUE>>,
                           <<1, FALSE>>>>
    /\ lines[1].styles = <<<<1, FALSE>>, <<2, FALSE>>>>

-----------------------------------------------------------------------------
(* Columns of the connector and label rows *)

\* the columns of the gutter: one per lane and a separator
gutter_cols == IF num_ml_slots = 0 THEN 0 ELSE num_ml_slots + 1

\* the bars under single-line annotations
sl_verticals(ev) ==
    {k \in 1..Len(ev) :
        /\ ev[k].s = "vertical" /\ ev[k].row \in {"connector", "label"}
        /\ ~is_multi_line(At0(annots, ev[k].mi))}

\* the first fragment of the label of each label row
label_starts(ev) ==
    {k \in 2..Len(ev) :
        ev[k].s = "label" /\ ev[k].row = "label" /\ ev[k - 1].s # "label"}

\* C19: in the connector row and in every label row under a line, each
\* vertical bar is at the display column start_col of its annotation and
\* each label of a label row begins at the start_col of its annotation
\* (columns counted from the first column of the line text).
C19_VerticalsAtStartCol ==
    pc = "done" =>
        LET start == [k \in 1..Len(out) |-> row_start(out, k)]
            col(k) == width_sum(out, start[k], k - 1) - margin_cols - gutter_cols
        IN /\ \A k \in sl_verticals(out) : col(k) = At0(annots, out[k].mi).start_col
           /\ \A k \in label_starts(out) : col(k) = At0(annots, out[k].mi).start_col

-----------------------------------------------------------------------------
(* What adding an annotation changes *)

\* the placement after the first n annotations
placement(n) == pre_process(snippet, src_annots, n)

\* the column intervals of two single-line annotations of one line intersect
sl_overlap(a, b) ==
    /\ ~is_multi_line(a) /\ ~is_multi_line(b)
    /\ a.start_line = b.start_line
    /\ Max(a.start_col, b.start_col) < Min(a.end_col, b.end_col)

\* C20: adding an annotation changes the annotations added before only by
\* setting sl_overlaps from false to true on the single-line annotations of
\* its line that it overlaps: their lines, columns, label and lane stay, no
\* sl_overlaps flag goes back to false, and adding a multi-line annotation
\* changes no sl_overlaps flag and no caret-owner array.
C20_AddAnnotationFrame ==
    \A n \in 1..Len(src_annots) :
        LET before == placement(n - 1)
            after == placement(n)
            new == after.annots[n]
        IN ~after.panic =>
              /\ Len(after.annots) = n
              /\ \A k \in 1..(n - 1) :
                    /\ after.annots[k] =
                          [before.annots[k] EXCEPT !.sl_overlaps = after.annots[k].sl_overlaps]
                    /\ before.annots[k].sl_overlaps => after.annots[k].sl_overlaps
                    /\ after.annots[k].sl_overlaps # before.annots[k].sl_overlaps
                          => sl_overlap(new, before.annots[k])
              /\ is_multi_line(new) =>
                    /\ \A k \in 1..(n - 1) :
                          after.annots[k].sl_overlaps = before.annots[k].sl_overlaps
                    /\ \A l \in DOMAIN after.lines :
                          after.lines[l].sl_carets =
                             IF l \in DOMAIN before.lines
                             THEN before.lines[l].sl_carets ELSE <<>>

\* C20 witness: a single-line annotation, then a multi-line annotation that
\* starts on its line and leaves it as it was, then a single-line annotation
\* that overlaps the first and sets its flag
C20_Witness ==
    /\ Len(src_annots) = 3 /\ pc = "done"
    /\ ~is_multi_line(annots[1]) /\ is_multi_line(annots[2]) /\ ~is_multi_line(annots[3])
    /\ annots[2].start_line = annots[1].start_line
    /\ placement(2).lines[annots[1].start_line].sl_carets # <<>>
    /\ ~placement(2).annots[1].sl_overlaps
    /\ annots[1].sl_overlaps /\ sl_overlap(annots[3], annots[1])

-----------------------------------------------------------------------------
(* The per-line lists of annotations *)

\* the list has no index twice and is strictly ascending by
\* (start_col, annotation index)
sorted_by_key(list) ==
    \A j \in 1..Len(list), k \in 1..Len(list) : j < k => follows(list[j], list[k])

ml_starting_on(l) ==
    {i \in 0..(Len(annots) - 1) :
        is_multi_line(At0(annots, i)) /\ At0(annots, i).start_line = l}

ml_ending_on(l) ==
    {i \in 0..(Len(annots) - 1) :
        is_multi_line(At0(annots, i)) /\ At0(annots, i).end_line = l}

\* C21: each per-line list (sl_annots, ml_annots_starts, ml_annots_ends) has
\* each of its annotations exactly once and is strictly ascending by
\* (start_col, annotation index), ties in the start column going by insertion
\* order; the binary search of insert_annot_sorted never finds the key, so
\* its unwrap_err does not panic.
C21_ListsSortedByKey ==
    /\ result # "unwrap_err on Ok"
    /\ \A n \in 1..Len(src_annots) : placement(n).why # "unwrap_err on Ok"
    /\ \A l \in DOMAIN lines :
          /\ Range(lines[l].sl_annots) = sl_on(l)
          /\ Range(lines[l].ml_annots_starts) = ml_starting_on(l)
          /\ Range(lines[l].ml_annots_ends) = ml_ending_on(l)
          /\ sorted_by_key(lines[l].sl_annots)
          /\ sorted_by_key(lines[l].ml_annots_starts)
          /\ sorted_by_key(lines[l].ml_annots_ends)

\* C21 witness: three multi-line annotations of the same two lines, the first
\* two with the same start column, listed in insertion order on both lines
C21_Witness ==
    /\ Len(annots) = 3 /\ multi_line_annots = {1, 2, 3}
    /\ annots[1].start_col = annots[2].start_col
    /\ annots[2].start_col < annots[3].start_col
    /\ \E l \in DOMAIN lines : lines[l].ml_annots_starts = <<0, 1, 2>>
    /\ \E l \in DOMAIN lines : lines[l].ml_annots_ends = <<0, 1, 2>>

-----------------------------------------------------------------------------
(* The order of the source lines in the output *)

\* bound of the order runs: annotations added before render
MaxOrderAnnots == 3

\* the first character of each line, and spans from one line to a later one
OrderSpans ==
    GapSpans \cup {<<4, 10>>, <<0, 16>>, <<9, 13>>}

InitOrder == NoBuilder /\ Annotations_new(GapSnippet, 1)

NextOrder ==
    \/ \E sp \in OrderSpans :
          Len(src_annots) < MaxOrderAnnots /\ add_annotation(sp, <<1>>)
    \/ \E after \in {0, 1}, before \in {0, 1} : render_begin(GapParams(after, before))
    \/ render_step

SpecOrder == InitOrder /\ [][NextOrder]_vars

\* the lines on which an annotation starts or ends
annotated_lines ==
    {annots[i].start_line : i \in 1..Len(annots)}
    \cup {annots[i].end_line : i \in 1..Len(annots)}

\* the line indices of the rows of ev that show source text, in order
shown_lines(ev) ==
    LET has_text_row(r) == r[1] \in {"text", "filler"}
        rows == SelectSeq(shown_rows(ev), has_text_row)
    IN [k \in 1..Len(rows) |-> rows[k][2]]

annotated_rows(ev) ==
    LET is_text_row(r) == r[1] = "text"
        rows == SelectSeq(shown_rows(ev), is_text_row)
    IN [k \in 1..Len(rows) |-> rows[k][2]]

\* C22: whatever the insertion order, a completed rendering shows the source
\* lines in strictly ascending order of line index, each at most once; every
\* line on which an annotation starts or ends is shown exactly once, as an
\* annotated line; no line before the first or after the last annotated line
\* is shown.
C22_LinesAscendingOnce ==
    pc = "done" =>
        LET shown == shown_lines(out)
            texts == annotated_rows(out)
        IN /\ \A j \in 1..Len(shown), k \in 1..Len(shown) : j < k => shown[j] < shown[k]
           /\ Range(texts) = annotated_lines
           /\ \A l \in annotated_lines :
                 Cardinality({k \in 1..Len(shown) : shown[k] = l}) = 1
           /\ \A k \in 1..Len(shown) :
                 \E a \in annotated_lines, b \in annotated_lines :
                    a <= shown[k] /\ shown[k] <= b

\* C22 witness: annotations added from the last line to the first, one of
\* them multi-line, rendered first line first with a filler line between
C22_Witness ==
    /\ pc = "done" /\ Len(annots) = 3
    /\ annots[1].start_line > annots[2].end_line
    /\ annots[2].start_line > annots[3].start_line
    /\ is_multi_line(annots[2])
    /\ \E k \in 1..Len(out) : out[k].row = "filler"
    /\ shown_lines(out)[1] = annots[3].start_line

-----------------------------------------------------------------------------
(* The order of the rows of an annotated line *)

\* bound of the row runs: annotations added before render
MaxRowAnnots == 4

\* on the fourth line of the snippet: two single-line spans that overlap, one
\* that does not, a span that ends on it, two that start on it (at column 0
\* and at column 1); and a span that ends a line before
RowSpans == {<<9, 10>>, <<9, 11>>, <<10, 11>>, <<4, 10>>, <<9, 13>>, <<10, 13>>,
             <<1, 7>>}

InitRows == NoBuilder /\ Annotations_new(GapSnippet, 1)

NextRows ==
    \/ \E sp \in RowSpans :
          Len(src_annots) < MaxRowAnnots /\ add_annotation(sp, <<1>>)
    \/ render_begin(DefaultParams)
    \/ render_step

SpecRows == InitRows /\ [][NextRows]_vars

row_rank(row) ==
    CASE row = "text" -> 1
      [] row = "carets" -> 2
      [] row = "connector" -> 3
      [] row = "label" -> 4
      [] row = "ml_end" -> 5
      [] row = "ml_start" -> 6
      [] OTHER -> 0

\* the ends of the rows of line l, gap rows left out
line_row_ends(ev, l) ==
    {k \in 1..Len(ev) : ev[k].s = "newline" /\ ev[k].line = l /\ row_rank(ev[k].row) > 0}

\* C23: the rows of each annotated line come in this order: the text row, the
\* caret row of the single-line annotations, the connector row and the label
\* rows, one end row for each multi-line annotation that ends on the line,
\* one start row for each multi-line annotation that starts on it after
\* column 0; so the end row of an annotation, with its label, precedes the
\* start row of every annotation that starts on the same line after column 0.
C23_RowOrder ==
    pc = "done" =>
        \A l \in DOMAIN lines :
            LET ends == line_row_ends(out, l)
                count(row) == Cardinality({k \in ends : out[k].row = row})
            IN /\ \A j \in ends, k \in ends :
                     j < k => row_rank(out[j].row) <= row_rank(out[k].row)
               /\ count("text") = 1
               /\ count("carets") = IF sl_on(l) = {} THEN 0 ELSE 1
               /\ count("ml_end") = Cardinality(ml_ending_on(l))
               /\ count("ml_start") =
                     Cardinality({i \in ml_starting_on(l) : At0(annots, i).start_col # 0})
               /\ \A a \in ml_ending_on(l), b \in ml_starting_on(l) :
                     At0(annots, b).start_col # 0 =>
                        \A j \in 1..Len(out), k \in 1..Len(out) :
                           (/\ out[j].row = "ml_end" /\ out[j].mi = a
                            /\ out[j].s \in {"caret", "label"}
                            /\ out[k].row = "ml_start" /\ out[k].mi = b /\ out[k].line = l)
                           => j < k

\* C23 witness: a line with the rows of every kind: two overlapping
\* single-line annotations, a multi-line annotation that ends on it and one
\* that starts on it at column 1
C23_Witness ==
    /\ pc = "done" /\ Len(annots) = 4
    /\ {out[k].row : k \in line_row_ends(out, 3)} =
          {"text", "carets", "connector", "label", "ml_end", "ml_start"}

-----------------------------------------------------------------------------
(* The values read back from the unit metadata table *)

\* the units the calls of log stand for, in order: <<width, length, whether
\* the unit is a continuation>>
RECURSIVE pushed_units(_, _)
pushed_units(log, n) ==
    IF n = 0 THEN <<>>
    ELSE pushed_units(log, n - 1)
         \o (IF log[n][2] = 0 THEN <<>>
             ELSE <<<<log[n][3], log[n][4], FALSE>>>>
                  \o [k \in 1..(log[n][2] - 1) |-> <<0, 0, TRUE>>])

has_entry(table, i) == \E k \in 1..Len(table) : table[k][1] = i

sorted_by_index(table) ==
    \A j \in 1..Len(table), k \in 1..Len(table) : j < k => table[j][1] < table[k][1]

\* C24: the width and the length in bytes read back for every unit pushed
\* with orig_len >= 1 are the values given at push time, also from 127 on: a
\* compact field holds 0x7F exactly when the side table has an entry for the
\* unit, the side tables are sorted by unit index, the look-up finds its
\* entry, and continuation records count for width 0 and length 0.
C24_MetaReadBack ==
    LET units == pushed_units(builder.log, Len(builder.log))
    IN /\ Len(builder.metas) = Len(units)
       /\ sorted_by_index(builder.large_widths)
       /\ sorted_by_index(builder.large_utf8_lens)
       /\ \A i \in 0..(Len(builder.metas) - 1) :
             /\ unit_width(builder, i) = At0(units, i)[1]
             /\ unit_utf8_len(builder, i) = At0(units, i)[2]
             /\ is_extra(At0(builder.metas, i)) = At0(units, i)[3]
             /\ meta_width(At0(builder.metas, i)) = MAX_WIDTH
                   <=> has_entry(builder.large_widths, i)
             /\ meta_utf8_len(At0(builder.metas, i)) = MAX_UTF8_LEN
                   <=> has_entry(builder.large_utf8_lens, i)
       /\ \A k \in 1..Len(builder.large_widths) :
             builder.large_widths[k][1] < Len(builder.metas)
       /\ \A k \in 1..Len(builder.large_utf8_lens) :
             builder.large_utf8_lens[k][1] < Len(builder.metas)

\* C24 witness: a fragment of width 127 and length 126, a fragment of width
\* 130 and length 260 given by two source units, then a narrow character
C24_Witness ==
    /\ built /\ Len(builder.metas) = 4
    /\ builder.large_widths = <<<<0, 127>>, <<1, 130>>>>
    /\ builder.large_utf8_lens = <<<<1, 260>>>>
    /\ gather_width(builder, 0, 4) = 258
    /\ gather_utf8_len(builder, 0, 4) = 387

-----------------------------------------------------------------------------
(* One record per source unit *)

\* the number of source units given to the first n calls of log
RECURSIVE units_given(_, _)
units_given(log, n) ==
    IF n = 0 THEN 0 ELSE units_given(log, n - 1) + log[n][2]

\* C25: the unit metadata table has one record per source unit (its length is
\* the sum of the orig_len arguments), a chunk pushed with orig_len = n >= 1
\* is one record that is not a continuation followed by n - 1 continuation
\* records, and the records at index 0 and at every line start of the line
\* map are not continuation records.
C25_OneRecordPerUnit ==
    LET log == builder.log
        before == [n \in 1..Len(log) |-> units_given(log, n - 1)]
    IN /\ Len(builder.metas) = units_given(log, Len(log))
       /\ \A n \in 1..Len(log) :
             log[n][2] >= 1 =>
                 /\ ~is_extra(At0(builder.metas, before[n]))
                 /\ \A k \in 1..(log[n][2] - 1) :
                       is_extra(At0(builder.metas, before[n] + k))
       /\ Len(builder.metas) > 0 => ~is_extra(At0(builder.metas, 0))
       /\ \A k \in 1..Len(builder.src_line_map) :
             builder.src_line_map[k] < Len(builder.metas)
                 => ~is_extra(At0(builder.metas, builder.src_line_map[k]))

\* C25 witness: a character of two source units, a line break of two source
\* units, then a character of two source units on the second line
C25_Witness ==
    /\ built
    /\ Len(builder.metas) = 6
    /\ builder.src_line_map = <<4>>
    /\ \A i \in 0..5 : is_extra(At0(builder.metas, i)) <=> i \in {1, 3, 5}

-----------------------------------------------------------------------------
(* The number of lanes *)

lanes_in_use == {annots[i].ml_slot : i \in multi_line_annots}

\* C26: num_ml_slots is 0 when no multi-line annotation was added and one
\* more than the largest lane given otherwise; the lane of a multi-line
\* annotation is the smallest one not used by an earlier-added annotation it
\* overlaps, so that every lane below num_ml_slots is used by an annotation;
\* and every lane is an index of the gutter table of render, which has
\* num_ml_slots entries.
C26_LaneCount ==
    pc \in {"lines", "done"} =>
        /\ multi_line_annots = {} => num_ml_slots = 0
        /\ multi_line_annots # {} =>
              /\ num_ml_slots - 1 \in lanes_in_use
              /\ \A s \in lanes_in_use : s <= num_ml_slots - 1
        /\ \A i \in multi_line_annots :
              annots[i].ml_slot =
                  (CHOOSE s \in 0..Len(annots) :
                      /\ s \notin lanes_of_earlier_overlapping(i)
                      /\ \A t \in 0..(s - 1) : t \in lanes_of_earlier_overlapping(i))
        /\ lanes_in_use = 0..(num_ml_slots - 1)
        /\ DOMAIN ml_slots = 1..num_ml_slots
        /\ \A i \in multi_line_annots : annots[i].ml_slot + 1 \in DOMAIN ml_slots
        /\ \A i \in 1..Len(annots) :
              ~is_multi_line(annots[i]) => annots[i].ml_slot = USIZE_MAX

\* C26 witness: a rendering with three lanes in which the annotation added
\* last took lane 0 again, below the lanes of two earlier annotations
C26_Witness ==
    /\ pc = "done" /\ result = "ok"
    /\ Len(annots) = 4 /\ multi_line_annots = 1..4
    /\ num_ml_slots = 3
    /\ annots[4].ml_slot = 0
    /\ {annots[2].ml_slot, annots[3].ml_slot} = {1, 2}

-----------------------------------------------------------------------------
(* The columns before the content of a row *)

\* bound of the alignment runs: annotations added before render
MaxAlignAnnots == 4

\* line numbers of one digit only, or of one and of two digits
AlignFirstNos == {1, 9}

\* single-line spans on the first and on the fourth line (two of them
\* overlapping), multi-line spans that start at column 0 and at column 1
AlignSpans == {<<0, 1>>, <<9, 10>>, <<9, 11>>, <<4, 10>>, <<0, 16>>}

AlignParams(margin, fill) ==
    [width |-> max_line_no_width, fill_after |-> fill, fill_before |-> 0,
     margin |-> margin, fail_at |-> 0]

InitAlign == NoBuilder /\ \E no \in AlignFirstNos : Annotations_new(GapSnippet, no)

NextAlign ==
    \/ \E sp \in AlignSpans :
          Len(src_annots) < MaxAlignAnnots /\ add_annotation(sp, <<1>>)
    \/ \E margin \in BOOLEAN, fill \in {0, 1} : render_begin(AlignParams(margin, fill))
    \/ render_step

SpecAlign == InitAlign /\ [][NextAlign]_vars

gutter_glyphs ==
    {"space", "vertical", "top_vertical", "top_corner", "bottom_corner", "horizontal"}

\* the kinds of row of ev
row_kinds(ev) == {ev[k].row : k \in 1..Len(ev)}

\* C27: in every row of a rendering (text, filler, caret, connector, label,
\* multi-line start and end, discontinuity) the content begins after the same
\* number of columns: a margin of max_line_no_width + 3 columns when a margin
\* style is set and of none otherwise (the number right-aligned in the first
\* max_line_no_width columns, a space, the bar or dot, a space), then a gutter
\* of num_ml_slots + 1 columns when there are lanes and of none otherwise.
\* The line text begins right after them, and the carets of the rows below
\* are at the columns of the line text they point to.
C27_RowPrefix ==
    /\ pc \notin {"panic", "flood", "failed"}
    /\ pc = "done" =>
          LET P == margin_cols + gutter_cols
              start == [k \in 1..Len(out) |-> row_start(out, k)]
              col == [k \in 1..Len(out) |-> width_sum(out, start[k], k - 1)]
          IN \A k \in 1..Len(out) :
                LET w == out[k]
                    c == col[k]
                IN /\ c < margin_cols =>
                         \/ w.s = "space" /\ c # rparams.width + 1
                         \/ /\ w.s = "line_no"
                            /\ c + cell_width(w) = rparams.width
                            /\ w.a = w.line + first_line_no
                         \/ w.s \in {"line_char", "dot_char"} /\ c = rparams.width + 1
                   /\ w.s \in {"line_no", "line_char", "dot_char"} => c < margin_cols
                   /\ (margin_cols <= c /\ c < P) =>
                         /\ w.s \in gutter_glyphs
                         /\ c = P - 1 => w.s \in {"space", "horizontal"}
                   /\ w.s = "newline" =>
                         /\ c >= P
                         /\ \E j \in start[k]..k : col[j] = P
                         /\ w.row \in {"text", "filler"} =>
                               \E j \in start[k]..k :
                                  col[j] <= P /\ out[j].s \in {"text", "newline"}
                   /\ w.s = "text" => c = P + w.b
                   /\ (w.s = "caret" /\ w.row = "carets") =>
                         At0(lines[w.line].sl_carets, c - P) = w.a
                   /\ (w.s = "caret" /\ w.row = "ml_start") =>
                         c = P + At0(annots, w.a).start_col
                   /\ (w.s = "caret" /\ w.row = "ml_end") =>
                         c = P + Max(At0(annots, w.a).end_col - 1, 0)

\* C27 witness: a rendering with a margin for numbers of two digits, the
\* first of them of one digit, with a gutter of one lane and rows of every
\* kind but the discontinuity row
C27_Witness ==
    /\ pc = "done" /\ result = "ok"
    /\ rparams.margin /\ rparams.width = 2 /\ first_line_no = 9
    /\ num_ml_slots = 1
    /\ {"text", "filler", "carets", "connector", "label", "ml_start", "ml_end"}
          \subseteq row_kinds(out)
    /\ \E k \in 1..Len(out) : out[k].s = "line_no" /\ out[k].a = 9

-----------------------------------------------------------------------------
(* The bytes of a line and the lengths of its units *)

\* the sum of the lengths in bytes of the units of line line_i
line_units_len(sn, line_i) ==
    gather_utf8_len(sn, src_line_range(sn, line_i).start, src_line_range(sn, line_i).end)

\* C28: after any sequence of push_str, push_empty and next_line calls, the
\* lengths in bytes of the units of each line add up to the length in bytes
\* of the text of the line, and the byte offsets that convert_span returns
\* are within the text of their lines.
C28_LineBytesMatchUnits ==
    /\ \A l \in 0..(num_lines(builder) - 1) :
          line_units_len(builder, l) = line_text_len(builder, l)
    /\ conv.done =>
          /\ conv.span.start_utf8 <= line_text_len(builder, conv.span.start_line)
          /\ conv.span.end_utf8 <= line_text_len(builder, conv.span.end_line)

-----------------------------------------------------------------------------
(* The lines inside a multi-line annotation *)

\* the lines strictly between the first and the last line of annotation i
\* (counted from 0)
inner_lines(i) == {l \in 0..(num_lines(snippet) - 1) :
                      At0(annots, i).start_line < l /\ l < At0(annots, i).end_line}

\* the annotations that start or end on line l
touching(l) == {i \in 0..(Len(annots) - 1) :
                   At0(annots, i).start_line = l \/ At0(annots, i).end_line = l}

\* C29: a multi-line annotation owns the style of no byte of a line strictly
\* between its first and its last line: the bytes of such a line, when it is
\* annotated by others, are owned by annotations that start or end on it or
\* by nobody, its text is written with their styles or the default one, a
\* filler line is written with the default style, and every row of such a
\* line has the bar of the annotation in its lane of the gutter.
C29_InnerLinesUnstyled ==
    pc \in {"lines", "done"} =>
        /\ \A l \in DOMAIN lines : \A b \in 1..Len(lines[l].styles) :
              lines[l].styles[b][1] \in touching(l) \cup {USIZE_MAX}
        /\ \A k \in 1..Len(out) :
              out[k].s = "text" =>
                 /\ out[k].row = "filler" =>
                       out[k].mk = "text_normal" /\ out[k].mi = None_
                 /\ out[k].mi \in touching(out[k].line) \cup {None_}
        /\ pc = "done" =>
              LET start == [k \in 1..Len(out) |-> row_start(out, k)]
              IN \A k \in 1..Len(out) :
                    (out[k].s = "newline" /\ out[k].line # None_) =>
                        \A i \in 0..(Len(annots) - 1) :
                            out[k].line \in inner_lines(i) =>
                                \E j \in start[k]..k :
                                    /\ out[j].s = "vertical" /\ out[j].mi = i
                                    /\ out[j].a = At0(annots, i).ml_slot

\* C29 witness: a completed rendering of an annotation from the first to the
\* last line, with a filler line and a line annotated by a single-line
\* annotation inside it
C29_Witness ==
    /\ pc = "done" /\ result = "ok"
    /\ \E i \in 0..(Len(annots) - 1) :
          /\ At0(annots, i).start_line = 0 /\ At0(annots, i).end_line = GapLines - 1
          /\ \E l \in inner_lines(i) \cap DOMAIN lines :
                \E b \in 1..Len(lines[l].styles) :
                    /\ lines[l].styles[b][1] # USIZE_MAX
                    /\ lines[l].styles[b][1] # i
          /\ \E k \in 1..Len(out) :
                /\ out[k].s = "text" /\ out[k].row = "filler"
                /\ out[k].line \in inner_lines(i)

-----------------------------------------------------------------------------
(* The ranges of a RangeSet *)

\* the values of the ranges given to insert: 0..MaxRangeValue
MaxRangeValue == 7

RangeInputs == {r \in (0..MaxRangeValue) \X (0..MaxRangeValue) : r[1] <= r[2]}

\* one call of insert; values collects what was inserted (kept for the
\* properties only)
rs_insert(new_range) ==
    /\ ~range_set.panic
    /\ LET r == insert(range_set.ranges, new_range)
       IN range_set' = [ranges |-> r.ranges,
                        values |-> range_set.values \cup (new_range[1]..new_range[2]),
                        panic |-> r.panic]
    /\ UNCHANGED <<builder, built, conv, snippet, first_line_no, src_annots, max_pos,
                   annots, lines, num_ml_slots, pc, rparams, prev_line_i, ml_slots,
                   out, n_calls, result, returned>>

InitRanges == NoBuilder /\ NoAnnotations

NextRanges == \E new_range \in RangeInputs : rs_insert(new_range)

SpecRanges == InitRanges /\ [][NextRanges]_vars

covered(ranges) == UNION {ranges[k][1]..ranges[k][2] : k \in 1..Len(ranges)}

\* the maximal runs of consecutive values of S, in ascending order
RECURSIVE runs_of(_)
runs_of(S) ==
    IF S = {} THEN <<>>
    ELSE LET lo == CHOOSE v \in S : \A u \in S : v <= u
             hi == CHOOSE v \in S : /\ lo..v \subseteq S
                                    /\ (v + 1) \notin S
         IN <<<<lo, hi>>>> \o runs_of(S \ (lo..hi))

\* C30: after any sequence of insert calls with non-empty inclusive ranges
\* the stored ranges are non-empty, sorted by start, pairwise disjoint and
\* not adjacent (a value is missing between two consecutive ranges), they
\* cover the union of the inserted ranges, the list is the one list of
\* maximal runs of that union whatever the order of the calls, no call
\* panics, and inserting a range that is already covered changes nothing.
C30_RangesCanonical ==
    LET ranges == range_set.ranges
    IN /\ ~range_set.panic
       /\ \A k \in 1..Len(ranges) : ranges[k][1] <= ranges[k][2]
       /\ \A k \in 1..(Len(ranges) - 1) : ranges[k][2] + 1 < ranges[k + 1][1]
       /\ covered(ranges) = range_set.values
       /\ ranges = runs_of(range_set.values)
       /\ \A r \in RangeInputs :
             (r[1]..r[2]) \subseteq range_set.values =>
                 insert(ranges, r) = [ranges |-> ranges, panic |-> FALSE]

\* C30 witness: three ranges one value apart, the second one the union of
\* several inserted ranges or a single one
C30_Witness ==
    /\ range_set.ranges = <<<<0, 0>>, <<2, 5>>, <<7, 7>>>>
    /\ range_set.values = {0, 2, 3, 4, 5, 7}

====
